---- MODULE Spec2Model ----
(***************************************************************************)
(* A model of the quiz-system-api ingestion pipeline: intake (upload),     *)
(* the in-memory job registry, the orchestrator process_job, the status    *)
(* and result endpoints, the chunker and the per-job vector index.         *)
(*                                                                         *)
(* Python strings are modelled as sequences of one-character strings, so   *)
(* that strip(), rfind() and slicing are computed as the code computes     *)
(* them.  An Optional value is <<>> (None) or <<x>>.                        *)
(***************************************************************************)
EXTENDS Integers, Sequences, FiniteSets, TLC

VARIABLES
    jobs,        \* jobs._JOBS: job id -> Job record, or NoJob when absent
    fs,          \* UPLOAD_ROOT: job id -> [dir, in, files]
    index,       \* the chroma collections: job id -> set of stored chunks
    task,        \* one background task per job: position and locals of process_job
    uuids,       \* how many uuid4() job ids the intake has drawn
    uploadResp,  \* the last response of POST /uploads
    poll,        \* GET /jobs/{id}: the request in progress, then its response
    resultResp,  \* the last response of GET /jobs/{id}/result
    genQ,        \* one question object of the generator's parsed response, or None
    normQ,       \* what _normalize_quiz appended to out_qs for it, or None
    quizRet,     \* how generate_quiz_from_chunks ended: "", a quiz or an exception
    evalReq,     \* the evaluation request being served, or None
    evalResp,    \* how evaluate_short_answer ended for it
    lastAdd,     \* the last add_document call on an index: its arguments and result
    chunker,     \* a run of _chunk_text: its text, window start, chunks and result
    packer,      \* a call of _pack_context: its arguments, shuffled groups and result
    quizReq      \* the last POST /quizzes request and its response

\* The variables of quiz generation, which the pipeline leaves alone.
quizVars == <<genQ, normQ, quizRet>>
\* The variables of answer evaluation.
evalVars == <<evalReq, evalResp>>
\* The variable of direct use of the index.
ragVars == <<lastAdd, chunker>>
\* What the ingestion pipeline leaves alone.
reqVars == <<packer, quizReq>>
offPipe == <<quizVars, evalVars, ragVars, reqVars>>
\* The variables of the ingestion pipeline, which quiz generation leaves alone.
pipeVars == <<jobs, fs, index, task, uuids, uploadResp, poll, resultResp>>

vars == <<pipeVars, quizVars, evalVars, ragVars, reqVars>>

-----------------------------------------------------------------------------
(* Bounds of the model.                                                    *)

\* Number of job ids (uploads) the model follows.
MaxJobs == 1
\* Longest file list of one upload request.
MaxFiles == 2

JobIds == 1..MaxJobs

-----------------------------------------------------------------------------
(* Optional values and small helpers.                                      *)

None == <<>>
Some(x) == <<x>>

Min(a, b) == IF a < b THEN a ELSE b
Max(a, b) == IF a > b THEN a ELSE b

Range(s) == {s[i] : i \in 1..Len(s)}

-----------------------------------------------------------------------------
(* Characters and Python string operations.                                *)

\* The characters of the model's texts and file names, in code-point order.
CharOrder ==
    <<"\n", " ", ".", "F", "P", "T", "X", "_", "a", "b", "c", "d", "e", "f",
      "g", "h", "i", "l", "n", "o", "p", "r", "s", "t", "x">>

Ord(c) == CHOOSE i \in 1..Len(CharOrder) : CharOrder[i] = c

\* str.strip() with no argument strips these.
Whitespace == {" ", "\n", "\t"}

RECURSIVE LStrip(_)
LStrip(s) ==
    IF s # <<>> /\ Head(s) \in Whitespace THEN LStrip(Tail(s)) ELSE s

RECURSIVE RStrip(_)
RStrip(s) ==
    IF s # <<>> /\ s[Len(s)] \in Whitespace
    THEN RStrip(SubSeq(s, 1, Len(s) - 1))
    ELSE s

\* s.strip()
Strip(s) == RStrip(LStrip(s))

\* s[i:k] for 0 <= i, with Python's clamping of the end.
Slice(s, i, k) == SubSeq(s, i + 1, Min(k, Len(s)))

\* s.rfind(c, start, end) for start, end >= 0: the highest 0-based position p
\* with start <= p < end and s[p] = c, or -1.
RFind(s, c, start, end) ==
    LET hits == {p \in start..(Min(end, Len(s)) - 1) : s[p + 1] = c}
    IN  IF hits = {} THEN -1 ELSE CHOOSE p \in hits : \A q \in hits : q <= p

\* Lexicographic order of two strings by code point (how sorted() orders paths
\* of one directory).
RECURSIVE StrLess(_, _)
StrLess(a, b) ==
    IF b = <<>> THEN FALSE
    ELSE IF a = <<>> THEN TRUE
    ELSE IF Head(a) # Head(b) THEN Ord(Head(a)) < Ord(Head(b))
    ELSE StrLess(Tail(a), Tail(b))

-----------------------------------------------------------------------------
(* services/storage.py                                                     *)

\* SAFE_RE = [^A-Za-z0-9._-]+ restricted to the model's characters.
SafeChars ==
    {".", "F", "P", "T", "X", "_", "a", "b", "c", "d", "e", "f", "g", "h", "i",
     "l", "n", "o", "p", "r", "s", "t", "x"}

\* SAFE_RE.sub("_", name): every maximal run of unsafe characters becomes one "_".
RECURSIVE SafeSub(_, _)
SafeSub(name, inRun) ==
    IF name = <<>> THEN <<>>
    ELSE IF Head(name) \in SafeChars THEN <<Head(name)>> \o SafeSub(Tail(name), FALSE)
    ELSE IF inRun THEN SafeSub(Tail(name), TRUE)
    ELSE <<"_">> \o SafeSub(Tail(name), TRUE)

SafeNameMax == 200

\* safe_name(name)
SafeName(name) ==
    LET sub == SafeSub(name, FALSE)
    IN  Slice(IF sub = <<>> THEN <<"f", "i", "l", "e">> ELSE sub, 0, SafeNameMax)

\* The state of a job's area on disk: the job directory, its in/ directory and
\* the regular files under in/.
NoDir == [dir |-> FALSE, in |-> FALSE, files |-> {}]

\* job_in_dir(job_id): mkdir(parents=True, exist_ok=True)
JobInDir(area) == [area EXCEPT !.dir = TRUE, !.in = TRUE]

\* cleanup without the exists() test and without ignore_errors: rmtree of an
\* absent directory raises.
CleanupJobInUnguarded(area) ==
    [area |-> [area EXCEPT !.in = FALSE, !.files = {}], err |-> ~area.in]

\* cleanup_job_in(job_id): rmtree of in/ when it exists; err is whether it raised.
CleanupJobIn(area) ==
    [area |-> IF area.in THEN [area EXCEPT !.in = FALSE, !.files = {}] ELSE area,
     err  |-> FALSE]

-----------------------------------------------------------------------------
(* extract.py                                                              *)

\* str.lower() on the model's characters.
LowerChar(c) ==
    CASE c = "F" -> "f"
      [] c = "P" -> "p"
      [] c = "T" -> "t"
      [] c = "X" -> "x"
      [] OTHER   -> c

Lower(s) == [i \in 1..Len(s) |-> LowerChar(s[i])]

\* Path.suffix: the last component's text from its last "." on, or "" when the
\* name has no "." after its first character or ends with ".".
Suffix(name) ==
    LET p == RFind(name, ".", 0, Len(name))
    IN  IF p > 0 /\ p < Len(name) - 1 THEN Slice(name, p, Len(name)) ELSE <<>>

\* The members of TEXT_EXTS that the model's characters can spell.
TEXT_EXTS == {<<".", "t", "x", "t">>, <<".", "c">>, <<".", "h">>, <<".", "s", "h">>}

MAX_TEXT_BYTES == 10485760

\* The members of DOCX_EXTS, PDF_EXTS and IMG_EXTS that the model's characters
\* can spell.
DOCX_EXTS == {<<".", "d", "o", "c", "x">>}
PDF_EXTS == {<<".", "p", "d", "f">>}
IMG_EXTS == {<<".", "p", "n", "g">>, <<".", "g", "i", "f">>}

\* What a reader does: it returns a text, or an exception leaves it.
Returned(text) == [raised |-> FALSE, text |-> text]
RaisedOut == [raised |-> TRUE, text |-> <<>>]

\* The placeholder f"[tag] ... {path.name} ...\n"; the tag with its blank is
\* one character of the model.
Placeholder(tag, f) == <<tag>> \o f.name \o <<"\n">>

\* A text reader without the try block.
ReadTextFileUnguarded(f) ==
    IF f.decode = "error" THEN RaisedOut ELSE Returned(f.text)

\* _read_text_file(path): the decoded content, or the "[error]" placeholder
\* when opening or reading fails.
ReadTextFile(f) ==
    IF f.decode = "error" THEN Returned(Placeholder("[error] ", f))
    ELSE Returned(f.text)

\* _read_docx(path): "[missing]" without python-docx, "[error]" when the
\* document does not open, else the paragraphs joined, and a newline.
ReadDocx(f) ==
    IF f.decode = "missing" THEN Returned(Placeholder("[missing] ", f))
    ELSE IF f.decode = "error" THEN Returned(Placeholder("[error] ", f))
    ELSE Returned(f.text \o <<"\n">>)

\* _read_pdf(path): the text of fitz, else that of pdfminer (or ""), else
\* "[error]" when neither is installed or both fail.
ReadPdf(f) ==
    IF f.decode \in {"missing", "error"} THEN Returned(Placeholder("[error] ", f))
    ELSE Returned(f.text)

\* _read_image(path, ocr=False)
ReadImage(f) == Returned(Placeholder("[skip] ", f))

\* extract_text_from_path(path): the reader of the extension; an unknown
\* extension is read as text when the file is within MAX_TEXT_BYTES and is
\* reported by the "[unsupported]" placeholder otherwise (mimetypes knows no
\* type for it).  The other readers need extensions outside the model's names.
ExtractTextFromPath(f) ==
    LET ext == Lower(Suffix(f.name))
    IN  IF ext \in TEXT_EXTS THEN ReadTextFile(f)
        ELSE IF ext \in DOCX_EXTS THEN ReadDocx(f)
        ELSE IF ext \in PDF_EXTS THEN ReadPdf(f)
        ELSE IF ext \in IMG_EXTS THEN ReadImage(f)
        ELSE IF f.size <= MAX_TEXT_BYTES THEN ReadTextFile(f)
        ELSE Returned(Placeholder("[unsupported] ", f))

\* sorted(p.rglob("*")) restricted to regular files: the files by name.
RECURSIVE SortedFiles(_)
SortedFiles(S) ==
    IF S = {} THEN <<>>
    ELSE LET m == CHOOSE f \in S : \A g \in S : g = f \/ StrLess(f.name, g.name)
         IN  <<m>> \o SortedFiles(S \ {m})

RECURSIVE KeepNonBlank(_)
KeepNonBlank(fileSeq) ==
    IF fileSeq = <<>> THEN <<>>
    ELSE LET f == Head(fileSeq)
             text == ExtractTextFromPath(f).text
         IN  (IF text # <<>> /\ Strip(text) # <<>>
              THEN <<[path |-> f.name, text |-> text]>>
              ELSE <<>>) \o KeepNonBlank(Tail(fileSeq))

\* walk_and_extract([in_root], return_per_file=True): the (path, text) pairs of
\* the files under in/ whose extracted text is not blank, in path order.  A
\* path that is no directory contributes nothing.
WalkAndExtract(area) ==
    IF area.in THEN KeepNonBlank(SortedFiles(area.files)) ELSE <<>>

\* walk_and_extract calls extract_text_from_path outside any try block: an
\* exception of a reader would leave it.
WalkRaises(area) ==
    area.in /\ \E f \in area.files : ExtractTextFromPath(f).raised

-----------------------------------------------------------------------------
(* services/rag.py                                                         *)

MaxChars == 1200
Overlap == 200
\* The offset from the window start at which _chunk_text starts looking for a
\* newline or a space to cut at.
SnapFrom == 200

\* The while loop of _chunk_text over the stripped text s, from window start i.
RECURSIVE ChunkLoop(_, _, _, _)
ChunkLoop(s, i, max_chars, overlap) ==
    IF i >= Len(s) THEN <<>>
    ELSE LET j  == Min(i + max_chars, Len(s))
             nl == RFind(s, "\n", i + SnapFrom, j)
             sp == RFind(s, " ", i + SnapFrom, j)
             k  == IF nl # -1 THEN nl ELSE IF sp # -1 THEN sp ELSE j
         IN  <<Strip(Slice(s, i, k))>>
                 \o ChunkLoop(s, Max(k - overlap, i + 1), max_chars, overlap)

\* _chunk_text(text, max_chars, overlap)
ChunkTextWith(text, max_chars, overlap) ==
    LET s == Strip(text)
    IN  IF s = <<>> THEN <<>>
        ELSE SelectSeq(ChunkLoop(s, 0, max_chars, overlap), LAMBDA c : c # <<>>)

ChunkText(text) == ChunkTextWith(text, MaxChars, Overlap)

\* _stable_id(docset_id, source, i): the docset id and a SHA-1 of the triple,
\* taken to be free of collisions.
StableId(docset_id, source, i) == <<docset_id, <<docset_id, source, i>>>>

\* An insertion that leaves what is stored under an id in place.
UpsertAppending(coll, entries) == coll \cup entries

\* collection.upsert(ids, documents, metadatas)
Upsert(coll, entries) ==
    {e \in coll : \A n \in entries : n.id # e.id} \cup entries

\* RAGIndex.add_document(docset_id, source, text): the collection afterwards
\* and the number of chunks returned.
AddDocument(coll, docset_id, source, text) ==
    LET chunks == ChunkText(text)
        entries == {[id       |-> StableId(docset_id, source, i - 1),
                     document |-> chunks[i],
                     meta     |-> [docset_id |-> docset_id, source |-> source,
                                   chunk |-> i - 1]] : i \in 1..Len(chunks)}
    IN  [coll  |-> IF chunks = <<>> THEN coll ELSE Upsert(coll, entries),
         count |-> Len(chunks)]

-----------------------------------------------------------------------------
(* jobs.py                                                                 *)

\* Job(id=..., status="PENDING", progress=0).  created_at and updated_at take
\* the dataclass defaults, evaluated once at import: time 0 of the model.
\* chunks_indexed is no field of the dataclass: process_job sets it by setattr.
NewJob(id) ==
    [id |-> id, status |-> "PENDING", progress |-> 0, file_path |-> None,
     result_path |-> None, error |-> None, created_at |-> 0, updated_at |-> 0,
     chunks_indexed |-> None]

\* create_job(job)
CreateJob(reg, job) == (job.id :> job) @@ reg

\* get_job(job_id): the record, or None.
GetJob(reg, id) == IF id \in DOMAIN reg THEN Some(reg[id]) ELSE None

\* One step of the loop of update_job: setattr(job, k, v).
SetAttr(job, k, v) == [job EXCEPT ![k] = v]

\* job.updated_at = time(): the clock is abstracted to the number of completed
\* update_job calls on the record.
Touch(job) == [job EXCEPT !.updated_at = @ + 1]

\* The keyword arguments of one update_job call, in the order they are passed
\* (the order in which the loop assigns them).
Fields1(k1, v1) == <<[k |-> k1, v |-> v1]>>
Fields2(k1, v1, k2, v2) == <<[k |-> k1, v |-> v1], [k |-> k2, v |-> v2]>>
Fields3(k1, v1, k2, v2, k3, v3) ==
    <<[k |-> k1, v |-> v1], [k |-> k2, v |-> v2], [k |-> k3, v |-> v3]>>

-----------------------------------------------------------------------------
(* The files a client may send.                                            *)

ParisText ==
    <<"P", "a", "r", "i", "s", " ", "i", "s", " ", "t", "h", "e", " ",
      "c", "a", "p", "i", "t", "a", "l", " ", "o", "f", " ",
      "F", "r", "a", "n", "c", "e", ".">>

MiB == 1048576

\* One .txt file with the text of the end-to-end scenario.
FParis ==
    [filename |-> <<"p", ".", "t", "x", "t">>, text |-> ParisText, size |-> 31,
     decode |-> "ok"]
\* A file of white space only, whose name needs sanitizing.
FBlank ==
    [filename |-> <<"a", " ", "b", ".", "T", "X", "T">>, text |-> <<" ", "\n">>,
     size |-> 2, decode |-> "ok"]
\* A part with no filename.
FNoName == [filename |-> <<>>, text |-> <<"a">>, size |-> 1, decode |-> "ok"]
\* A large file: 150 MiB, of which the model keeps the first word.
FBig ==
    [filename |-> <<"b", ".", "t", "x", "t">>, text |-> <<"a", "b", " ", "c">>,
     size |-> 150 * MiB, decode |-> "ok"]

FileMenu == {FParis, FBlank, FNoName, FBig}

\* The file lists of an upload request.
RECURSIVE SeqsUpTo(_, _)
SeqsUpTo(S, n) ==
    IF n = 0 THEN {<<>>}
    ELSE LET shorter == SeqsUpTo(S, n - 1)
         IN  shorter \cup {Append(q, x) : q \in {r \in shorter : Len(r) = n - 1}, x \in S}

Uploads == SeqsUpTo(FileMenu, MaxFiles)

-----------------------------------------------------------------------------
(* api/views.py: POST /uploads                                             *)

MAX_UPLOAD_MB == 200
\* A ceiling far above any request.
MAX_BYTES_RAISED == MAX_UPLOAD_MB * 1024 * 1024 * 4
MAX_BYTES == MAX_UPLOAD_MB * 1024 * 1024

\* dest.open("wb") and the copy loop: the file named `name` is replaced.
WriteFile(files, name, f) ==
    {g \in files : g.name # name} \cup {[name |-> name, text |-> f.text, size |-> f.size, decode |-> f.decode]}

\* The for loop of upload over the remaining files: the in/ files, the byte
\* and file counters, the names saved, and whether the size check aborted it.
RECURSIVE SaveFiles(_, _)
SaveFiles(files, st) ==
    IF files = <<>> \/ st.tooLarge THEN st
    ELSE LET f == Head(files)
         IN  IF f.filename = <<>> THEN SaveFiles(Tail(files), st)
             ELSE LET name  == SafeName(f.filename)
                      total == st.total_size + f.size
                  IN  IF total > MAX_BYTES
                      THEN [st EXCEPT !.disk = {}, !.total_size = total,
                                      !.saved = @ + 1,
                                      !.names = Append(@, name),
                                      !.tooLarge = TRUE]
                      ELSE SaveFiles(Tail(files),
                               [st EXCEPT !.disk = WriteFile(@, name, f),
                                          !.total_size = total,
                                          !.saved = @ + 1,
                                          !.names = Append(@, name)])

NoTask ==
    [pc |-> "none", upd |-> <<>>, ret |-> "none", extracted |-> <<>>, i |-> 0,
     total_chunks |-> 0, exc |-> None, pending |-> FALSE, cleanupErr |-> FALSE]

\* upload(files): a fresh job id and its in/ directory; the files are saved;
\* then 413 (too large), 400 (nothing saved), or the job is registered and
\* process_job handed to the background tasks.  When saving the upload's
\* metadata fails (dbOk = FALSE) the files are unlinked and the request ends
\* 500: the framework runs the background tasks of a returned response only,
\* so the task never starts.
UploadWithin(limit, files, dbOk) ==
    /\ uuids < limit
    /\ LET job_id == uuids + 1
           st == SaveFiles(files, [disk |-> {}, total_size |-> 0, saved |-> 0,
                                   names |-> <<>>, tooLarge |-> FALSE])
           area == JobInDir(fs[job_id])
       IN  /\ uuids' = job_id
           /\ IF st.tooLarge
              THEN /\ fs' = [fs EXCEPT ![job_id] = [area EXCEPT !.files = {}]]
                   /\ uploadResp' = [job |-> job_id, code |-> 413,
                                     detail |-> "Total upload too large"]
                   /\ UNCHANGED <<jobs, task>>
              ELSE IF st.saved = 0
              THEN /\ fs' = [fs EXCEPT ![job_id] = area]
                   /\ uploadResp' = [job |-> job_id, code |-> 400,
                                     detail |-> "No valid files uploaded"]
                   /\ UNCHANGED <<jobs, task>>
              ELSE /\ jobs' = CreateJob(jobs, NewJob(job_id))
                   /\ IF dbOk
                      THEN /\ fs' = [fs EXCEPT ![job_id] = [area EXCEPT !.files = st.disk]]
                           /\ task' = [task EXCEPT ![job_id].pc = "queued"]
                           /\ uploadResp' = [job |-> job_id, code |-> 202,
                                             detail |-> "Accepted"]
                      ELSE /\ fs' = [fs EXCEPT ![job_id] = [area EXCEPT !.files = {}]]
                           /\ task' = task
                           /\ uploadResp' = [job |-> job_id, code |-> 500,
                                             detail |-> "Failed to save upload information"]
    /\ UNCHANGED <<index, poll, resultResp, offPipe>>

\* An upload while the model follows fewer than MaxJobs jobs.
Upload(files, dbOk) == UploadWithin(MaxJobs, files, dbOk)

-----------------------------------------------------------------------------
(* services/tasks.py: process_job, one step per statement that touches     *)
(* shared state.  update_job is a loop of setattr calls followed by the    *)
(* write of updated_at; other threads (the status endpoint, other tasks)   *)
(* run between any two of them.                                            *)

\* Enter update_job(job_id, **fields); continue at `ret` when it returns.
CallUpdateJob(t, fields, ret) == [t EXCEPT !.pc = "update_job", !.upd = fields, !.ret = ret]

\* The background task starts: update_job(job_id, status="PROCESSING", progress=0)
StartTask(j) ==
    /\ task[j].pc = "queued"
    /\ task' = [task EXCEPT ![j] =
                   CallUpdateJob(@, Fields2("status", "PROCESSING", "progress", 0),
                                 "check_dir")]
    /\ UNCHANGED <<jobs, fs, index, uuids, uploadResp, poll, resultResp, offPipe>>

\* update_job: setattr(job, k, v) for the next keyword argument.
UpdateJobSetAttr(j) ==
    /\ task[j].pc = "update_job"
    /\ task[j].upd # <<>>
    /\ jobs' = [jobs EXCEPT ![j] = SetAttr(@, Head(task[j].upd).k, Head(task[j].upd).v)]
    /\ task' = [task EXCEPT ![j].upd = Tail(@)]
    /\ UNCHANGED <<fs, index, uuids, uploadResp, poll, resultResp, offPipe>>

\* update_job: job.updated_at = time(), and return to the caller.
UpdateJobTouch(j) ==
    /\ task[j].pc = "update_job"
    /\ task[j].upd = <<>>
    /\ jobs' = [jobs EXCEPT ![j] = Touch(@)]
    /\ task' = [task EXCEPT ![j].pc = task[j].ret, ![j].ret = "none"]
    /\ UNCHANGED <<fs, index, uuids, uploadResp, poll, resultResp, offPipe>>

\* if not in_root.exists(): FAILED "Input directory missing", return;
\* else update_job(job_id, progress=10)
CheckDir(j) ==
    /\ task[j].pc = "check_dir"
    /\ task' = [task EXCEPT ![j] =
                   IF ~fs[j].in
                   THEN CallUpdateJob(@, Fields2("status", "FAILED",
                                                 "error", Some("Input directory missing")),
                                      "finally")
                   ELSE CallUpdateJob(@, Fields1("progress", 10), "extract")]
    /\ UNCHANGED <<jobs, fs, index, uuids, uploadResp, poll, resultResp, offPipe>>

\* extracted_files = walk_and_extract(...); if not extracted_files: FAILED
\* "No text extracted from files", return; else update_job(job_id, progress=40)
Extract(j) ==
    /\ task[j].pc = "extract"
    /\ LET extracted_files == WalkAndExtract(fs[j])
       IN  task' = [task EXCEPT ![j] =
                       IF WalkRaises(fs[j])
                       THEN [@ EXCEPT !.pc = "except",
                                      !.exc = Some("reader failed"),
                                      !.pending = TRUE]
                       ELSE IF extracted_files = <<>>
                       THEN CallUpdateJob(@, Fields2("status", "FAILED",
                                                     "error", Some("No text extracted from files")),
                                          "finally")
                       ELSE CallUpdateJob([@ EXCEPT !.extracted = extracted_files],
                                          Fields1("progress", 40), "open_index")]
    /\ UNCHANGED <<jobs, fs, index, uuids, uploadResp, poll, resultResp, offPipe>>

\* One collection that every job id is given.
CollectionShared(name) == 1

\* client.get_or_create_collection(name=collection): the collection of that
\* name.
CollectionOf(name) == name

\* idx = RAGIndex(work_dir=work_dir, collection=job_id); total_chunks = 0
OpenIndex(j) ==
    /\ task[j].pc = "open_index"
    /\ task' = [task EXCEPT ![j].pc = "add_document", ![j].i = 0, ![j].total_chunks = 0]
    /\ UNCHANGED <<jobs, fs, index, uuids, uploadResp, poll, resultResp, offPipe>>

\* One iteration of the for loop: idx.add_document(...); total_chunks += chunks
IndexNext(j) ==
    /\ task[j].pc = "add_document"
    /\ task[j].i < Len(task[j].extracted)
    /\ LET doc == task[j].extracted[task[j].i + 1]
           c   == CollectionOf(j)
           r   == AddDocument(index[c], j, <<j, doc.path>>, doc.text)
       IN  /\ index' = [index EXCEPT ![c] = r.coll]
           /\ task' = [task EXCEPT ![j].i = @ + 1,
                                   ![j].total_chunks = @ + r.count]
    /\ UNCHANGED <<jobs, fs, uuids, uploadResp, poll, resultResp, offPipe>>

\* The SUCCEEDED update placed inside the loop body: it runs before the last
\* document is indexed.
MarkSucceededEarly(j) ==
    /\ task[j].pc = "add_document"
    /\ task[j].i <= Len(task[j].extracted)
    /\ task' = [task EXCEPT ![j] =
                   CallUpdateJob(@, Fields3("status", "SUCCEEDED", "progress", 100,
                                            "chunks_indexed", Some(task[j].total_chunks)),
                                 "finally")]
    /\ UNCHANGED <<jobs, fs, index, uuids, uploadResp, poll, resultResp, offPipe>>

\* After the loop: update_job(job_id, status="SUCCEEDED", progress=100,
\* chunks_indexed=total_chunks)
MarkSucceeded(j) ==
    /\ task[j].pc = "add_document"
    /\ task[j].i = Len(task[j].extracted)
    /\ task' = [task EXCEPT ![j] =
                   CallUpdateJob(@, Fields3("status", "SUCCEEDED", "progress", 100,
                                            "chunks_indexed", Some(task[j].total_chunks)),
                                 "finally")]
    /\ UNCHANGED <<jobs, fs, index, uuids, uploadResp, poll, resultResp, offPipe>>

\* str(e) of the exception a step of the try block may raise.
ExceptionAt(pc) ==
    CASE pc = "check_dir"    -> "cannot stat input directory"
      [] pc = "extract"      -> "cannot read input directory"
      [] pc = "open_index"   -> "cannot open vector index"
      [] pc = "add_document" -> "embedding request failed"

\* A handler written "except OSError": it misses what the index raises.
CatchesOSErrorOnly(pc) == pc \in {"check_dir", "extract"}

\* except Exception: whether the handler catches what the step at `pc` raises
\* (OSError, chromadb and openai errors are all subclasses of Exception).
Catches(pc) == TRUE

\* The steps of the try block that may raise: the directory check (an OSError
\* other than "not found"), the walk, the construction of the index, and
\* add_document.
MayRaise(t) ==
    IF t.pc = "add_document" THEN t.i < Len(t.extracted)
    ELSE t.pc \in {"check_dir", "extract", "open_index"}

\* A step of the try block raises e.
RaiseInTry(j) ==
    /\ MayRaise(task[j])
    /\ task' = [task EXCEPT ![j].pc = IF Catches(task[j].pc) THEN "except" ELSE "finally",
                            ![j].exc = Some(ExceptionAt(task[j].pc)),
                            ![j].pending = TRUE]
    /\ UNCHANGED <<jobs, fs, index, uuids, uploadResp, poll, resultResp, offPipe>>

\* except Exception as e: update_job(job_id, status="FAILED", error=str(e))
HandleException(j) ==
    /\ task[j].pc = "except"
    /\ task' = [task EXCEPT ![j] =
                   CallUpdateJob([@ EXCEPT !.pending = FALSE],
                                 Fields2("status", "FAILED", "error", task[j].exc),
                                 "finally")]
    /\ UNCHANGED <<jobs, fs, index, uuids, uploadResp, poll, resultResp, offPipe>>

\* finally: cleanup_job_in(job_id); then process_job returns, or the exception
\* that no handler caught (or that cleanup raised) leaves it.
Finally(j) ==
    /\ task[j].pc = "finally"
    /\ LET r == CleanupJobIn(fs[j])
       IN  /\ fs' = [fs EXCEPT ![j] = r.area]
           /\ task' = [task EXCEPT ![j].pc = IF task[j].pending \/ r.err
                                             THEN "raised" ELSE "done",
                                   ![j].cleanupErr = r.err]
    /\ UNCHANGED <<jobs, index, uuids, uploadResp, poll, resultResp, offPipe>>

-----------------------------------------------------------------------------
(* api/views.py: GET /jobs/{job_id}, GET /jobs/{job_id}/result and         *)
(* DELETE /uploaded_files/{job_id}                                         *)

\* The status request in progress, or the last response once pc = "done".
\* A response carries status, progress, resultUrl and error; code is 200, or
\* 404 with the job not found.
IdlePoll ==
    [pc |-> "idle", job |-> 0, code |-> 0, status |-> "", progress |-> 0,
     resultUrl |-> None, error |-> None]

\* job_status: job = get_job(job_id); 404 when there is none.
PollStart(j) ==
    /\ poll.pc \in {"idle", "done"}
    /\ poll' = IF GetJob(jobs, j) = None
               THEN [IdlePoll EXCEPT !.pc = "done", !.job = j, !.code = 404]
               ELSE [IdlePoll EXCEPT !.pc = "status", !.job = j]
    /\ UNCHANGED <<jobs, fs, index, task, uuids, uploadResp, resultResp, offPipe>>

\* "status": job.status
PollReadStatus ==
    /\ poll.pc = "status"
    /\ poll' = [poll EXCEPT !.pc = "progress", !.status = jobs[poll.job].status]
    /\ UNCHANGED <<jobs, fs, index, task, uuids, uploadResp, resultResp, offPipe>>

\* "progress": job.progress
PollReadProgress ==
    /\ poll.pc = "progress"
    /\ poll' = [poll EXCEPT !.pc = "resultUrl", !.progress = jobs[poll.job].progress]
    /\ UNCHANGED <<jobs, fs, index, task, uuids, uploadResp, resultResp, offPipe>>

\* "resultUrl": f"/jobs/{job_id}/result" if job.result_path else None
PollReadResultPath ==
    /\ poll.pc = "resultUrl"
    /\ poll' = [poll EXCEPT !.pc = "error",
                            !.resultUrl = IF jobs[poll.job].result_path # None
                                          THEN Some(<<"/jobs", poll.job, "result">>)
                                          ELSE None]
    /\ UNCHANGED <<jobs, fs, index, task, uuids, uploadResp, resultResp, offPipe>>

\* "error": job.error, and the response is returned.
PollReadError ==
    /\ poll.pc = "error"
    /\ poll' = [poll EXCEPT !.pc = "done", !.code = 200, !.error = jobs[poll.job].error]
    /\ UNCHANGED <<jobs, fs, index, task, uuids, uploadResp, resultResp, offPipe>>

\* Path(job.result_path).exists(): nothing in the repository writes a result
\* artifact, so no such path exists.
PathExists(path) == FALSE

\* job_result without the test of the status.
JobResultIgnoringStatus(found) ==
    IF found = None THEN [code |-> 404, detail |-> "Result not available"]
    ELSE IF found[1].result_path = None \/ ~PathExists(found[1].result_path[1])
    THEN [code |-> 410, detail |-> "Result expired"]
    ELSE [code |-> 200, detail |-> "FileResponse"]

\* job_result(job_id): the status code and detail of the response to a request
\* that finds `found` (None, or the job record).
JobResultResponse(found) ==
    IF found = None \/ found[1].status # "SUCCEEDED" \/ found[1].result_path = None
    THEN [code |-> 404, detail |-> "Result not available"]
    ELSE IF ~PathExists(found[1].result_path[1])
    THEN [code |-> 410, detail |-> "Result expired"]
    ELSE [code |-> 200, detail |-> "FileResponse"]

NoResultResp == [job |-> 0, seen |-> "", code |-> 0, detail |-> ""]

\* GET /jobs/{job_id}/result.  `seen` records what the request found: "absent"
\* or the job's status.
JobResult(j) ==
    /\ LET found == GetJob(jobs, j)
           r == JobResultResponse(found)
       IN  resultResp' = [job |-> j,
                          seen |-> IF found = None THEN "absent" ELSE found[1].status,
                          code |-> r.code, detail |-> r.detail]
    /\ UNCHANGED <<jobs, fs, index, task, uuids, uploadResp, poll, offPipe>>

\* delete_uploaded_files(job_id) by an admin: rmtree of the job directory and
\* delete_collection of its chroma collection.
DeleteUploadedFiles(j) ==
    /\ j <= uuids
    /\ fs' = [fs EXCEPT ![j] = NoDir]
    /\ index' = [index EXCEPT ![j] = {}]
    /\ UNCHANGED <<jobs, task, uuids, uploadResp, poll, resultResp, offPipe>>

-----------------------------------------------------------------------------
(* The pipeline as a state machine.                                        *)

\* No evaluation has ended.
NoEvalResp ==
    [kind |-> "none", code |-> 0, called |-> FALSE, raw |-> None, result |-> "",
     score |-> 0, feedback |-> <<>>, citations |-> <<>>]

\* No call of _pack_context has been made.
NoPacker ==
    [pc |-> "idle", docs |-> <<>>, metas |-> <<>>, budget |-> 0, grouped |-> <<>>,
     packed |-> <<>>]

\* No quiz has been requested.
NoQuizReq == [pc |-> "idle", job |-> 0, code |-> 0, detail |-> "", called |-> FALSE]

\* No run of _chunk_text has begun.
NoChunker ==
    [pc |-> "idle", text |-> <<>>, s |-> <<>>, i |-> 0, chunks |-> <<>>,
     ret |-> <<>>]

\* No add_document call has been made.
NoAdd ==
    [job |-> 0, source |-> <<>>, text |-> <<>>, count |-> 0, again |-> FALSE,
     overwrote |-> FALSE]

Init ==
    /\ jobs = << >>
    /\ fs = [j \in JobIds |-> NoDir]
    /\ index = [j \in JobIds |-> {}]
    /\ task = [j \in JobIds |-> NoTask]
    /\ uuids = 0
    /\ uploadResp = [job |-> 0, code |-> 0, detail |-> ""]
    /\ poll = IdlePoll
    /\ resultResp = NoResultResp
    /\ genQ = None
    /\ normQ = None
    /\ quizRet = ""
    /\ evalReq = None
    /\ evalResp = NoEvalResp
    /\ lastAdd = NoAdd
    /\ chunker = NoChunker
    /\ packer = NoPacker
    /\ quizReq = NoQuizReq

Next ==
    \/ \E files \in Uploads \ {<<>>}, dbOk \in BOOLEAN : Upload(files, dbOk)
    \/ \E j \in JobIds :
          \/ StartTask(j)
          \/ UpdateJobSetAttr(j)
          \/ UpdateJobTouch(j)
          \/ CheckDir(j)
          \/ Extract(j)
          \/ OpenIndex(j)
          \/ IndexNext(j)
          \/ MarkSucceeded(j)
          \/ RaiseInTry(j)
          \/ HandleException(j)
          \/ Finally(j)
          \/ PollStart(j)
          \/ JobResult(j)
          \/ DeleteUploadedFiles(j)
    \/ PollReadStatus
    \/ PollReadProgress
    \/ PollReadResultPath
    \/ PollReadError

Spec == Init /\ [][Next]_vars

-----------------------------------------------------------------------------
(* quiz.py: the values of the generator's parsed JSON.  A value carries    *)
(* its type tag t and, by the tag, a string s, a number n (a bool is the   *)
(* number 0 or 1, as in Python) or a list l of values.                     *)

JNull == [t |-> "null", s |-> "", n |-> 0, l |-> <<>>]
JStr(x) == [t |-> "str", s |-> x, n |-> 0, l |-> <<>>]
JInt(i) == [t |-> "int", s |-> "", n |-> i, l |-> <<>>]
JBool(b) == [t |-> "bool", s |-> "", n |-> IF b THEN 1 ELSE 0, l |-> <<>>]
JList(seq) == [t |-> "list", s |-> "", n |-> 0, l |-> seq]
\* A non-empty JSON object, of which nothing more is used.
JObj == [t |-> "obj", s |-> "", n |-> 0, l |-> <<>>]

\* bool(v): what `v or default` tests.
Truthy(v) ==
    CASE v.t \in {"null", "missing"} -> FALSE
      [] v.t = "str"  -> v.s # "" \/ v.l # <<>>
      [] v.t \in {"int", "bool"} -> v.n # 0
      [] v.t = "list" -> v.l # <<>>
      [] OTHER -> TRUE

\* a == b in Python: True == 1 and False == 0; values of other types are equal
\* when they are the same value.
PyEq(a, b) ==
    IF a.t \in {"int", "bool"} /\ b.t \in {"int", "bool"} THEN a.n = b.n ELSE a = b

\* x in seq
PyIn(x, seq) == \E i \in 1..Len(seq) : PyEq(seq[i], x)

\* isinstance(v, str), isinstance(v, int) (which holds of a bool too)
IsStr(v) == v.t = "str"
IsInt(v) == v.t \in {"int", "bool"}

\* seq[:n]
FirstN(seq, n) == SubSeq(seq, 1, Min(n, Len(seq)))

\* f"Option {i}"
OptionName(i) ==
    JStr(CASE i = 1 -> "Option 1" [] i = 2 -> "Option 2"
           [] i = 3 -> "Option 3" [] OTHER -> "Option 4")

\* [f"Option {i}" for i in range(1, needed + 1)]
Placeholders(needed) == [i \in 1..needed |-> OptionName(i)]

MCQ_SINGLE_OPTIONS == 4
MCQ_MULTI_MIN_OPTIONS == 3
MCQ_MULTI_MAX_OPTIONS == 7
MCQ_MULTI_MIN_CORRECT == 2
MCQ_MULTI_MAX_CORRECT == 4

\* The options of a question of type qtype whose "options" value is raw (a
\* list, or a value that is not truthy): the default, then the length that the
\* type enforces.
OptionsByType(qtype, raw) ==
    LET options == IF Truthy(raw) THEN raw.l
                   ELSE IF PyEq(qtype, JStr("true_false"))
                        THEN <<JStr("True"), JStr("False")>> ELSE <<>>
    IN  IF PyEq(qtype, JStr("mcq_single"))
        THEN IF Len(options) < MCQ_SINGLE_OPTIONS
             THEN options \o Placeholders(MCQ_SINGLE_OPTIONS - Len(options))
             ELSE FirstN(options, MCQ_SINGLE_OPTIONS)
        ELSE IF PyEq(qtype, JStr("mcq_multi"))
        THEN IF Len(options) < MCQ_MULTI_MIN_OPTIONS
             THEN options \o Placeholders(MCQ_MULTI_MIN_OPTIONS - Len(options))
             ELSE IF Len(options) > MCQ_MULTI_MAX_OPTIONS
             THEN FirstN(options, MCQ_MULTI_MAX_OPTIONS)
             ELSE options
        ELSE IF PyEq(qtype, JStr("true_false"))
        THEN <<JStr("True"), JStr("False")>>
        ELSE IF PyEq(qtype, JStr("answer_short_question"))
        THEN <<>>
        ELSE options

\* [t for x in candidate if (t := idx_to_text(x)) is not None]
RECURSIVE IndicesToTexts(_, _)
IndicesToTexts(options, idxs) ==
    IF idxs = <<>> THEN <<>>
    ELSE (IF 0 <= Head(idxs).n /\ Head(idxs).n < Len(options)
          THEN <<options[Head(idxs).n + 1]>> ELSE <<>>)
             \o IndicesToTexts(options, Tail(idxs))

\* The candidate's texts as given, not matched against the options.
ToStringAnswersUnfiltered(qtype, options, candidate) ==
    IF candidate.t = "list" THEN candidate.l ELSE <<candidate>>

\* _to_string_answers(qtype, options, candidate)
ToStringAnswers(qtype, options, candidate) ==
    IF PyEq(qtype, JStr("answer_short_question")) THEN <<>>
    ELSE IF candidate.t = "list" /\ \A i \in 1..Len(candidate.l) : IsStr(candidate.l[i])
    THEN SelectSeq(options, LAMBDA opt : PyIn(opt, candidate.l))
    ELSE IF candidate.t = "list" /\ \A i \in 1..Len(candidate.l) : IsInt(candidate.l[i])
    THEN IndicesToTexts(options, candidate.l)
    ELSE IF candidate.t = "str"
    THEN IF PyIn(candidate, options) THEN <<candidate>> ELSE <<>>
    ELSE IF candidate.t = "bool"
    THEN IF PyEq(qtype, JStr("true_false"))
         THEN IF candidate.n = 1 THEN <<JStr("True")>> ELSE <<JStr("False")>>
         ELSE <<>>
    ELSE <<>>

\* for opt in options: append opt unless present has it; stop at two.
RECURSIVE PadPresent(_, _)
PadPresent(options, present) ==
    IF options = <<>> THEN present
    ELSE LET p == IF ~PyIn(Head(options), present)
                  THEN Append(present, Head(options)) ELSE present
         IN  IF Len(p) >= MCQ_MULTI_MIN_CORRECT THEN p
             ELSE PadPresent(Tail(options), p)

\* The per-type enforcement of correctAnswers.
CorrectByType(qtype, options, correct_texts) ==
    IF PyEq(qtype, JStr("mcq_single"))
    THEN IF Len(correct_texts) = 0 /\ options # <<>>
         THEN <<options[1]>>
         ELSE FirstN(correct_texts, 1)
    ELSE IF PyEq(qtype, JStr("mcq_multi"))
    THEN LET present == SelectSeq(options, LAMBDA opt : PyIn(opt, correct_texts))
             padded  == IF Len(present) < MCQ_MULTI_MIN_CORRECT
                        THEN PadPresent(options, present) ELSE present
         IN  IF Len(padded) > MCQ_MULTI_MAX_CORRECT
             THEN FirstN(padded, MCQ_MULTI_MAX_CORRECT) ELSE padded
    ELSE IF PyEq(qtype, JStr("true_false"))
    THEN IF correct_texts = <<JStr("True")>> THEN <<JStr("True")>>
         ELSE <<JStr("False")>>
    ELSE IF PyEq(qtype, JStr("answer_short_question"))
    THEN <<>>
    ELSE correct_texts

\* A key that the object does not have.
JMissing == [t |-> "missing", s |-> "", n |-> 0, l |-> <<>>]
\* A string of which the characters matter: they are kept in l.
JText(chars) == [t |-> "str", s |-> "", n |-> 0, l |-> chars]

\* The decimal numerals that the model's strings spell.
Numerals == <<"0", "1", "2", "3", "4", "5", "6", "7", "8", "9", "10", "11">>

\* int(v): the number, or the exception that int raises.
PyInt(v) ==
    CASE v.t \in {"int", "bool"} -> [exc |-> "", n |-> v.n]
      [] v.t = "str" ->
           IF \E k \in 1..Len(Numerals) : Numerals[k] = v.s
           THEN [exc |-> "", n |-> (CHOOSE k \in 1..Len(Numerals) : Numerals[k] = v.s) - 1]
           ELSE [exc |-> "ValueError", n |-> 0]
      [] OTHER -> [exc |-> "TypeError", n |-> 0]

\* str(v) of a string, of None and of a number that Numerals spells.
PyStr(v) ==
    CASE v.t = "str" -> v.s
      [] v.t \in {"int", "bool"} /\ v.n \in 0..(Len(Numerals) - 1) -> Numerals[v.n + 1]
      [] OTHER -> "None"

LEVEL_DEFAULT == 5
LEVEL_MIN == 1
LEVEL_MAX == 10

\* level = int(q.get("level", 5)), then clamped.
LevelOf(v) ==
    LET r == IF v.t = "missing" THEN [exc |-> "", n |-> LEVEL_DEFAULT] ELSE PyInt(v)
    IN  [r EXCEPT !.n = Max(LEVEL_MIN, Min(LEVEL_MAX, r.n))]

\* One entry of a "citations" list: an object or not, with a "source" key or
\* not, and the values of its keys.
Citation(obj, hasSource, source, chunk) ==
    [obj |-> obj, hasSource |-> hasSource, source |-> source, chunk |-> chunk]

\* q.get("citations") or [], made [] when it is no list.
CitationList(v) == IF v.t = "list" THEN v.l ELSE <<>>

\* The entries that the comprehension keeps: isinstance(c, dict) and "source" in c.
KeptCitations(v) == SelectSeq(CitationList(v), LAMBDA c : c.obj /\ c.hasSource)

\* int(c.get("chunk", 0)) of a kept entry.
ChunkOf(c) ==
    IF c.chunk.t = "missing" THEN [exc |-> "", n |-> 0] ELSE PyInt(c.chunk)

\* The first exception that the comprehension raises, or "".
RECURSIVE CitationsRaise(_)
CitationsRaise(kept) ==
    IF kept = <<>> THEN ""
    ELSE IF ChunkOf(Head(kept)).exc # "" THEN ChunkOf(Head(kept)).exc
    ELSE CitationsRaise(Tail(kept))

\* The normalized citations.
NormalizeCitations(v) ==
    LET kept == KeptCitations(v)
    IN  [i \in 1..Len(kept) |->
            [source |-> PyStr(kept[i].source), chunk |-> ChunkOf(kept[i]).n]]

\* The "grading" value: its JSON type and, of an object, the values of its keys.
Grading(t, rubric, keywords, maxChars) ==
    [t |-> t, rubric |-> rubric, keywords |-> keywords, maxChars |-> maxChars]

\* {}: an object without keys.
NoGrading == Grading("obj", JMissing, JMissing, JMissing)

\* bool(g) for a "grading" value g.  A list or string that is given is not empty.
GradingTruthy(g) ==
    CASE g.t \in {"null", "missing"} -> FALSE
      [] g.t = "obj" -> g # NoGrading
      [] OTHER -> TRUE

GENERIC_RUBRIC ==
    <<"A", "n", "s", "w", "e", "r", " ", "c", "o", "n", "c", "i", "s", "e",
      "l", "y", " ", "u", "s", "i", "n", "g", " ", "f", "a", "c", "t", "s",
      " ", "f", "r", "o", "m", " ", "t", "h", "e", " ", "c", "i", "t", "e",
      "d", " ", "c", "o", "n", "t", "e", "x", "t", ".", " ", "M", "e", "n",
      "t", "i", "o", "n", " ", "t", "h", "e", " ", "k", "e", "y", " ", "t",
      "e", "r", "m", "s", " ", "l", "i", "s", "t", "e", "d", " ", "i", "n",
      " ", "k", "e", "y", "w", "o", "r", "d", "s", ";", " ", "d", "o", " ",
      "n", "o", "t", " ", "i", "n", "v", "e", "n", "t", " ", "f", "a", "c",
      "t", "s", ".">>

\* The characters of the string that keywords is, as a list would be iterated.
Chars(chars) == [i \in 1..Len(chars) |-> JText(<<chars[i]>>)]

\* [str(x).strip() for x in (grading.get("keywords") or []) if str(x).strip()],
\* for keywords that is a list of strings, a string, or not truthy.
KeywordsOf(v) ==
    LET items == IF ~Truthy(v) THEN <<>>
                 ELSE IF v.t = "str" THEN Chars(v.l) ELSE v.l
        kept  == SelectSeq(items, LAMBDA x : Strip(x.l) # <<>>)
    IN  [i \in 1..Len(kept) |-> Strip(kept[i].l)]

\* The rubric as the generator gave it, without synthesis.
RubricAsGiven(v) == IF Truthy(v) THEN Strip(v.l) ELSE <<>>

\* rubric = (grading.get("rubric") or "").strip(), replaced by the generic
\* rubric when empty.
RubricOf(v) ==
    LET rubric == IF Truthy(v) THEN Strip(v.l) ELSE <<>>
    IN  IF rubric = <<>> THEN GENERIC_RUBRIC ELSE rubric

\* The exception of the grading block for a short-answer question, or "".
GradingRaises(g) ==
    IF g.t # "obj" THEN "AttributeError"
    ELSE IF Truthy(g.rubric) /\ g.rubric.t # "str" THEN "AttributeError"
    ELSE IF Truthy(g.keywords) /\ g.keywords.t \notin {"str", "list"} THEN "TypeError"
    ELSE ""

\* The normalized grading of a question of type qtype.
GradingByType(qtype, given) ==
    LET grading == IF GradingTruthy(given) THEN given ELSE NoGrading
    IN  IF PyEq(qtype, JStr("answer_short_question"))
        THEN [short |-> TRUE, rubric |-> RubricOf(grading.rubric),
              keywords |-> KeywordsOf(grading.keywords),
              maxChars |-> IF grading.maxChars.t \in {"int", "bool"} /\ grading.maxChars.n > 0
                           THEN Some(grading.maxChars.n) ELSE None]
        ELSE [short |-> FALSE, rubric |-> <<>>, keywords |-> <<>>, maxChars |-> None]

\* The exception that the loop body raises for the question object q, or "".
Raises(q) ==
    IF LevelOf(q.level).exc # "" THEN LevelOf(q.level).exc
    ELSE IF /\ Truthy(q.options) /\ q.options.t # "list"
            /\ (PyEq(q.type, JStr("mcq_single")) \/ PyEq(q.type, JStr("mcq_multi")))
    THEN "TypeError"
    ELSE IF CitationsRaise(KeptCitations(q.citations)) # ""
    THEN CitationsRaise(KeptCitations(q.citations))
    ELSE IF PyEq(q.type, JStr("answer_short_question")) /\ GradingTruthy(q.grading)
    THEN GradingRaises(q.grading)
    ELSE ""

\* The body of the loop of _normalize_quiz for one question object q that it
\* does not raise for: the question appended to out_qs.
NormalizeQuestion(q) ==
    LET qtype     == q.type
        options   == OptionsByType(qtype, q.options)
        candidate == IF q.correctAnswers.t = "null" THEN q.answer ELSE q.correctAnswers
        correct_texts == ToStringAnswers(qtype, options, candidate)
    IN  [type |-> qtype, level |-> LevelOf(q.level).n, options |-> options,
         correctAnswers |-> CorrectByType(qtype, options, correct_texts),
         citations |-> NormalizeCitations(q.citations),
         grading |-> GradingByType(qtype, q.grading)]

-----------------------------------------------------------------------------
(* The question objects the generator may return.                          *)

\* Longest list of distinct option texts.
MaxOptions == 8
\* Longest option list drawn with repeated texts.
MaxRepeated == 3

Letters == <<"A", "B", "C", "D", "E", "F", "G", "H", "I", "J">>

Strs(seq) == [i \in 1..Len(seq) |-> JStr(seq[i])]
Ints(seq) == [i \in 1..Len(seq) |-> JInt(seq[i])]

\* The "options" values: missing, lists of distinct texts of every length up
\* to MaxOptions, and every list up to MaxRepeated over three texts, one of
\* them a placeholder's text.
GenOptions ==
    {JNull}
      \cup {JList(Strs(SubSeq(Letters, 1, n))) : n \in 0..MaxOptions}
      \cup {JList(Strs(l)) : l \in SeqsUpTo({"A", "B", "Option 1"}, MaxRepeated)}

\* The "correctAnswers" values: lists of texts, lists of indices, lists of
\* bools and mixed lists, a single text, a bool, a number, an object.
GenAnswers ==
    {JList(Strs(l)) : l \in SeqsUpTo({"A", "C", "Z"}, 2)}
      \cup {JList(Strs(SubSeq(Letters, 1, 5))), JList(Strs(<<"True">>)),
            JList(Strs(<<"False">>)), JList(Strs(<<"True", "False">>))}
      \cup {JList(Ints(l)) : l \in SeqsUpTo({-1, 0, 2}, 2) \ {<<>>}}
      \cup {JList(Ints(<<0, 1, 2, 3, 4>>)), JList(<<JBool(TRUE)>>),
            JList(<<JBool(FALSE)>>), JList(<<JInt(0), JStr("A")>>)}
      \cup {JStr("A"), JStr("Z"), JStr("True"), JBool(TRUE), JBool(FALSE),
            JInt(1), JObj}

GenTypes ==
    {JStr("mcq_single"), JStr("mcq_multi"), JStr("true_false"),
     JStr("answer_short_question"), JStr("essay"), JNull}

\* The "level" values: missing, numbers in and out of range, numerals, a word,
\* null, a bool.
GenLevels ==
    {JMissing, JInt(0), JInt(7), JInt(11), JStr("7"), JStr("high"), JNull, JBool(TRUE)}

\* Longest "citations" list.
MaxCitations == 2

\* The entries of a "citations" list: well-formed ones, one that is no object,
\* one without source, and ones whose chunk is missing, a numeral, a word, null.
GenCitationEntries ==
    {Citation(TRUE, TRUE, JStr("a.txt"), JInt(0)),
     Citation(TRUE, TRUE, JStr("b.txt"), JInt(3)),
     Citation(FALSE, FALSE, JMissing, JMissing),
     Citation(TRUE, FALSE, JMissing, JInt(1)),
     Citation(TRUE, TRUE, JStr("a.txt"), JMissing),
     Citation(TRUE, TRUE, JStr("a.txt"), JStr("3")),
     Citation(TRUE, TRUE, JStr("a.txt"), JStr("x")),
     Citation(TRUE, TRUE, JStr("a.txt"), JNull),
     Citation(TRUE, TRUE, JNull, JInt(2))}

GenCitations ==
    {JNull, JStr("see notes")}
      \cup {JList(l) : l \in SeqsUpTo(GenCitationEntries, MaxCitations)}

\* The "grading" values: missing, a list, a string, and objects whose rubric is
\* missing, null, empty, blank, a text or a number, whose keywords is missing,
\* a list, a string or a number.
GenGradings ==
    {Grading("null", JMissing, JMissing, JMissing),
     Grading("list", JMissing, JMissing, JMissing),
     Grading("str", JMissing, JMissing, JMissing)}
      \cup {Grading("obj", r, k, m) :
               r \in {JMissing, JNull, JText(<<>>), JText(<<" ", "\n">>),
                      JText(<<" ", "U", "s", "e", " ">>), JInt(5)},
               k \in {JMissing, JList(<<>>), JList(<<JText(<<"k", "1">>), JText(<<" ">>)>>),
                      JText(<<"a", "b">>), JInt(5)},
               m \in {JMissing, JInt(80), JInt(0), JStr("80")}}

\* A response of the generator, by its shape: "object" is a JSON object whose
\* "questions" list holds one question object, of which the other fields are
\* the keys; the other shapes have no question object.
Question(ty, o, c, a, lv, ct, g) ==
    [shape |-> "object", type |-> ty, options |-> o, correctAnswers |-> c,
     answer |-> a, level |-> lv, citations |-> ct, grading |-> g]

\* A response of another shape: "text" is no JSON, "array" and "string" are
\* JSON that is no object, "empty object" is {}, "questions number" has a
\* number for "questions", "question number" a number in the "questions" list.
OtherShapes ==
    {"text", "array", "string", "empty object", "questions number", "question number"}

Shaped(shape) ==
    [Question(JNull, JNull, JNull, JNull, JMissing, JNull, NoGrading) EXCEPT !.shape = shape]

FourOptions == JList(Strs(SubSeq(Letters, 1, 4)))

\* A question object gives correctAnswers, or leaves it out and may give the
\* older "answer" key; its level, citations and grading vary one at a time,
\* and its options may be a number.
GenQuestions ==
    {Question(ty, o, c, JNull, JMissing, JNull, NoGrading) :
        ty \in GenTypes, o \in GenOptions, c \in GenAnswers}
      \cup {Question(ty, o, JNull, a, JMissing, JNull, NoGrading) :
              ty \in GenTypes, o \in GenOptions,
              a \in {JNull, JStr("B"), JBool(TRUE), JList(Ints(<<1>>))}}
      \cup {Question(ty, FourOptions, JStr("A"), JNull, lv, JNull, NoGrading) :
              ty \in GenTypes, lv \in GenLevels}
      \cup {Question(ty, FourOptions, JStr("A"), JNull, JMissing, ct, NoGrading) :
              ty \in GenTypes, ct \in GenCitations}
      \cup {Question(ty, FourOptions, JStr("A"), JNull, JMissing, JNull, g) :
              ty \in GenTypes, g \in GenGradings}
      \cup {Question(ty, JInt(5), JStr("A"), JNull, JMissing, JNull, NoGrading) :
              ty \in GenTypes \ {JStr("essay"), JNull}}

GenResponses == GenQuestions \cup {Shaped(sh) : sh \in OtherShapes}

QuizExceptions == {"AttributeError", "TypeError", "ValueError"}

\* How generate_quiz_from_chunks ends for the response r: returning the empty
\* quiz {title: "Quiz", questions: []}, returning a quiz with the normalized
\* question, or raising.
QuizOutcome(r) ==
    CASE r.shape \in {"text", "empty object"} -> [ret |-> "empty", q |-> None]
      [] r.shape \in {"array", "string", "question number"} ->
           [ret |-> "AttributeError", q |-> None]
      [] r.shape = "questions number" -> [ret |-> "TypeError", q |-> None]
      [] OTHER ->
           IF Raises(r) # "" THEN [ret |-> Raises(r), q |-> None]
           ELSE [ret |-> "quiz", q |-> Some(NormalizeQuestion(r))]

\* client.chat.completions.create returned the response r.
GeneratorReturns(q) ==
    /\ genQ = None
    /\ genQ' = Some(q)
    /\ normQ' = None
    /\ UNCHANGED <<quizRet, pipeVars, evalVars, ragVars, reqVars>>

\* json.loads(raw) and _normalize_quiz(data): the quiz is returned, with the
\* normalized question appended to out_qs, or an exception leaves the call.
Normalize ==
    /\ genQ # None
    /\ quizRet = ""
    /\ quizRet' = QuizOutcome(genQ[1]).ret
    /\ normQ' = QuizOutcome(genQ[1]).q
    /\ UNCHANGED <<genQ, pipeVars, evalVars, ragVars, reqVars>>

\* The responses still to come: any of them while the request is open.
Awaited == IF genQ = None THEN GenResponses ELSE {}

NextQuiz ==
    \/ \E q \in Awaited : GeneratorReturns(q)
    \/ Normalize

SpecQuiz == Init /\ [][NextQuiz]_vars

-----------------------------------------------------------------------------
(* quiz.py: evaluate_short_answer, and POST /evaluate_short_answer.        *)

\* Scores are counted in tenths: 7 is the JSON number 0.7.
SCORE_MIN == 0
SCORE_MAX == 10

\* The numerals of 0.0 to 1.0 that the model's strings spell.
TenthNumerals ==
    <<"0.0", "0.1", "0.2", "0.3", "0.4", "0.5", "0.6", "0.7", "0.8", "0.9", "1.0">>

\* float(v), in tenths: the number, or the exception that float raises.
PyFloat(v) ==
    CASE v.t = "int" -> [exc |-> "", n |-> v.n]
      [] v.t = "bool" -> [exc |-> "", n |-> v.n * 10]
      [] v.t = "str" ->
           IF \E k \in 1..Len(TenthNumerals) : TenthNumerals[k] = v.s
           THEN [exc |-> "", n |-> (CHOOSE k \in 1..Len(TenthNumerals) : TenthNumerals[k] = v.s) - 1]
           ELSE [exc |-> "ValueError", n |-> 0]
      [] OTHER -> [exc |-> "TypeError", n |-> 0]

\* max(0.0, min(1.0, float(data.get("score", 0.0))))
ScoreOf(v) ==
    LET r == IF v.t = "missing" THEN [exc |-> "", n |-> 0] ELSE PyFloat(v)
    IN  [r EXCEPT !.n = Max(SCORE_MIN, Min(SCORE_MAX, r.n))]

\* (data.get(key) or "").strip(): the text, or the exception.
StrippedText(v) ==
    IF ~Truthy(v) THEN [exc |-> "", text |-> <<>>]
    ELSE IF v.t = "str" THEN [exc |-> "", text |-> Strip(v.l)]
    ELSE [exc |-> "AttributeError", text |-> <<>>]

ERROR_FEEDBACK ==
    <<"E", "r", "r", "o", "r", " ", "e", "v", "a", "l", "u", "a", "t", "i", "n", "g", " ", "a", "n", "s", "w", "e", "r", ".">>

\* The grader's response: no JSON ("text"), JSON that is no object ("array"),
\* or a JSON object with the values of its keys.
GraderObject(result, score, answer, feedback) ==
    [shape |-> "object", result |-> result, score |-> score, answer |-> answer,
     feedback |-> feedback]

GraderShaped(shape) ==
    [GraderObject(JMissing, JMissing, JMissing, JMissing) EXCEPT !.shape = shape]

GraderResponses ==
    {GraderShaped("text"), GraderShaped("array")}
      \cup {GraderObject(r, sc, a, f) :
               r \in {JMissing, JStr("correct"), JStr("incorrect"), JStr("Correct")},
               sc \in {JMissing, JInt(-5), JInt(0), JInt(7), JInt(10), JInt(25),
                       JStr("0.8"), JStr("high"), JNull, JBool(TRUE)},
               a \in {JMissing, JText(<<" ", "4", " ">>), JInt(5)},
               f \in {JMissing, JText(<<"o", "k", "\n">>)}}

\* The questions of evaluation requests: a type, and the citations of a
\* normalized question.
EvalQuestions ==
    {[type |-> ty, citations |-> ct] :
        ty \in {JStr("answer_short_question"), JStr("mcq_single"), JStr("true_false"), JNull},
        ct \in {<<>>, <<[source |-> "a.txt", chunk |-> 0]>>,
                <<[source |-> "a.txt", chunk |-> 0], [source |-> "b.txt", chunk |-> 3]>>}}

\* What FastAPI answers when the handler returns, and when an exception
\* leaves it.
HTTP_OK == 200
HTTP_SERVER_ERROR == 500

\* An exception leaves evaluate_short_answer and the handler.
EvalRaised(exc, called, g) ==
    [NoEvalResp EXCEPT !.kind = exc, !.code = HTTP_SERVER_ERROR, !.called = called,
                       !.raw = g]

\* From json.loads on: what evaluate_short_answer returns or raises for the
\* grader's response g, the question's citations being `citations`.
EvalOutcome(g, citations) ==
    IF g.shape = "text"
    THEN [kind |-> "result", code |-> HTTP_OK, called |-> TRUE, raw |-> Some(g),
          result |-> "incorrect", score |-> 0, feedback |-> ERROR_FEEDBACK,
          citations |-> citations]
    ELSE IF g.shape = "array" THEN EvalRaised("AttributeError", TRUE, Some(g))
    ELSE IF ScoreOf(g.score).exc # "" THEN EvalRaised(ScoreOf(g.score).exc, TRUE, Some(g))
    ELSE IF StrippedText(g.answer).exc # ""
    THEN EvalRaised(StrippedText(g.answer).exc, TRUE, Some(g))
    ELSE IF StrippedText(g.feedback).exc # ""
    THEN EvalRaised(StrippedText(g.feedback).exc, TRUE, Some(g))
    ELSE [kind |-> "result", code |-> HTTP_OK, called |-> TRUE, raw |-> Some(g),
          result |-> IF PyEq(g.result, JStr("correct")) THEN "correct" ELSE "incorrect",
          score |-> ScoreOf(g.score).n,
          feedback |-> StrippedText(g.feedback).text,
          citations |-> citations]

\* POST /evaluate_short_answer arrives with the question.
EvaluateRequest(question) ==
    /\ evalReq = None
    /\ evalReq' = Some(question)
    /\ UNCHANGED <<evalResp, pipeVars, quizVars, ragVars, reqVars>>

\* The type check of evaluate_short_answer fails: ValueError, before the
\* client is made.
RejectType ==
    /\ evalReq # None
    /\ evalResp.kind = "none"
    /\ ~PyEq(evalReq[1].type, JStr("answer_short_question"))
    /\ evalResp' = EvalRaised("ValueError", FALSE, None)
    /\ UNCHANGED <<evalReq, pipeVars, quizVars, ragVars, reqVars>>

\* The type check passes, the grader is called and answers g.
Evaluate(g) ==
    /\ evalReq # None
    /\ evalResp.kind = "none"
    /\ PyEq(evalReq[1].type, JStr("answer_short_question"))
    /\ evalResp' = EvalOutcome(g, evalReq[1].citations)
    /\ UNCHANGED <<evalReq, pipeVars, quizVars, ragVars, reqVars>>

\* The requests still to come.
AwaitedEval == IF evalReq = None THEN EvalQuestions ELSE {}

NextEval ==
    \/ \E question \in AwaitedEval : EvaluateRequest(question)
    \/ RejectType
    \/ \E g \in GraderResponses : Evaluate(g)

SpecEval == Init /\ [][NextEval]_vars

\* C17: for a short-answer question and every response of the grader,
\* evaluation returns a result that is correct or incorrect, with a score
\* within [0, 1] and the question's citations; for a response that is no JSON
\* it returns the fallback.
C17_EvaluateNeverRaises ==
    (/\ evalReq # None /\ evalReq[1].type = JStr("answer_short_question")
     /\ evalResp.kind # "none")
       => /\ evalResp.kind = "result"
          /\ evalResp.result \in {"correct", "incorrect"}
          /\ evalResp.score \in SCORE_MIN..SCORE_MAX
          /\ evalResp.citations = evalReq[1].citations
          /\ evalResp.raw[1].shape = "text"
                => /\ evalResp.result = "incorrect"
                   /\ evalResp.score = 0
                   /\ evalResp.feedback = ERROR_FEEDBACK

\* The part of C17 that holds: what evaluation returns when it returns, and
\* the fallback for a response that is no JSON.
C17_WhenItReturns ==
    (evalReq # None /\ evalResp.called)
       => /\ evalResp.raw[1].shape = "text"
                => /\ evalResp.kind = "result"
                   /\ evalResp.result = "incorrect"
                   /\ evalResp.score = 0
                   /\ evalResp.feedback = ERROR_FEEDBACK
                   /\ evalResp.citations = evalReq[1].citations
          /\ evalResp.kind = "result"
                => /\ evalResp.result \in {"correct", "incorrect"}
                   /\ evalResp.score \in SCORE_MIN..SCORE_MAX
                   /\ evalResp.citations = evalReq[1].citations

\* C18: an evaluation request for a question of another type fails without a
\* call of the grader, and with a caller error: not the response that a
\* failure of the system gets.
C18_InvalidArgument ==
    (/\ evalReq # None /\ evalReq[1].type # JStr("answer_short_question")
     /\ evalResp.kind # "none")
       => /\ ~evalResp.called
          /\ evalResp.kind = "ValueError"
          /\ evalResp.code # HTTP_SERVER_ERROR

\* The part of C18 that holds: ValueError is raised, and no call is made.
C18_NoGraderCall ==
    (/\ evalReq # None /\ evalReq[1].type # JStr("answer_short_question")
     /\ evalResp.kind # "none")
       => /\ ~evalResp.called
          /\ evalResp.kind = "ValueError"

\* z is a subsequence of the rest of x from position `from` on.
RECURSIVE IsSubseqFrom(_, _, _)
IsSubseqFrom(z, x, from) ==
    IF z = <<>> THEN TRUE
    ELSE \E i \in from..Len(x) :
            /\ x[i] = Head(z)
            /\ \A k \in from..(i - 1) : x[k] # Head(z)
            /\ IsSubseqFrom(Tail(z), x, i + 1)

NoDuplicates(z) == \A i, k \in 1..Len(z) : z[i] = z[k] => i = k

\* C9: a normalized mcq_single question has exactly 4 options and exactly 1
\* correct answer, which is one of the 4 options.
C9_McqSingle ==
    (normQ # None /\ normQ[1].type = JStr("mcq_single"))
       => /\ Len(normQ[1].options) = 4
          /\ Len(normQ[1].correctAnswers) = 1
          /\ \E i \in 1..4 : normQ[1].options[i] = normQ[1].correctAnswers[1]

\* An mcq_single question that came with more than 4 options and with indices
\* for its answer has been normalized.
C9_Witness ==
    /\ normQ # None
    /\ genQ[1].type = JStr("mcq_single")
    /\ Len(genQ[1].options.l) > 4
    /\ genQ[1].correctAnswers = JList(Ints(<<2, 0>>))
    /\ normQ[1].correctAnswers = <<JStr("C")>>

\* C10: a normalized mcq_multi question has 3 to 7 options and 2 to 4 correct
\* answers, which are without duplicates and a subsequence of the options in
\* option order.
C10_McqMulti ==
    (normQ # None /\ normQ[1].type = JStr("mcq_multi"))
       => /\ Len(normQ[1].options) \in 3..7
          /\ Len(normQ[1].correctAnswers) \in 2..4
          /\ NoDuplicates(normQ[1].correctAnswers)
          /\ IsSubseqFrom(normQ[1].correctAnswers, normQ[1].options, 1)

\* The part of C10 that the code keeps for every input: the number of
\* options, at most 4 correct answers, each of them an option.
C10_Bounds ==
    (normQ # None /\ normQ[1].type = JStr("mcq_multi"))
       => /\ Len(normQ[1].options) \in 3..7
          /\ Len(normQ[1].correctAnswers) \in 1..4
          /\ \A i \in 1..Len(normQ[1].correctAnswers) :
                normQ[1].correctAnswers[i] \in Range(normQ[1].options)

\* The answer that came with the question q: correctAnswers, or answer.
IncomingAnswer(q) ==
    IF q.correctAnswers.t = "null" THEN q.answer ELSE q.correctAnswers

IsTextList(c) ==
    c.t = "list" /\ c.l # <<>> /\ \A i \in 1..Len(c.l) : c.l[i].t = "str"

IsIndexList(c) ==
    c.t = "list" /\ c.l # <<>> /\ \A i \in 1..Len(c.l) : c.l[i].t = "int"

\* The options that the answer c names, for a question of type ty with the
\* options opts: those of a list of option texts, of a list of option indices,
\* of a single text, of a boolean for true_false; none for another shape.
Named(ty, c, opts) ==
    IF IsTextList(c)
    THEN {o \in Range(opts) : \E i \in 1..Len(c.l) : c.l[i] = o}
    ELSE IF IsIndexList(c)
    THEN {opts[c.l[i].n + 1] : i \in {k \in 1..Len(c.l) : c.l[k].n \in 0..(Len(opts) - 1)}}
    ELSE IF c.t = "str" THEN {c} \cap Range(opts)
    ELSE IF c.t = "bool" /\ ty = JStr("true_false")
    THEN {IF c.n = 1 THEN JStr("True") ELSE JStr("False")}
    ELSE {}

\* C11: a normalized true_false question has the options ["True", "False"] and
\* the correct answers ["True"] or ["False"], and ["False"] when the incoming
\* answer is missing, not recognized, or names both options.
C11_TrueFalse ==
    (normQ # None /\ normQ[1].type = JStr("true_false"))
       => /\ normQ[1].options = <<JStr("True"), JStr("False")>>
          /\ normQ[1].correctAnswers \in {<<JStr("True")>>, <<JStr("False")>>}
          /\ Cardinality(Named(genQ[1].type, IncomingAnswer(genQ[1]), normQ[1].options)) # 1
                => normQ[1].correctAnswers = <<JStr("False")>>

\* The part of C11 that holds for every answer that is not a list of booleans.
C11_ExceptBoolLists ==
    (/\ normQ # None /\ normQ[1].type = JStr("true_false")
     /\ \A i \in 1..Len(IncomingAnswer(genQ[1]).l) : IncomingAnswer(genQ[1]).l[i].t # "bool")
       => /\ normQ[1].options = <<JStr("True"), JStr("False")>>
          /\ normQ[1].correctAnswers \in {<<JStr("True")>>, <<JStr("False")>>}
          /\ Cardinality(Named(genQ[1].type, IncomingAnswer(genQ[1]), normQ[1].options)) # 1
                => normQ[1].correctAnswers = <<JStr("False")>>

\* The generator gave no rubric, or a blank one.
RubricBlank(g) ==
    \/ g.t \in {"null", "missing"}
    \/ g.rubric.t \in {"null", "missing"}
    \/ g.rubric.t = "str" /\ Strip(g.rubric.l) = <<>>

\* C12: a normalized answer_short_question question has no options and no
\* correct answers, whatever answer came with it, and a grading object with a
\* rubric that is not empty and a list of keywords; the rubric is the generic
\* one when the generator gave none or a blank one.
C12_ShortAnswer ==
    (normQ # None /\ normQ[1].type = JStr("answer_short_question"))
       => /\ normQ[1].options = <<>>
          /\ normQ[1].correctAnswers = <<>>
          /\ normQ[1].grading.short
          /\ Strip(normQ[1].grading.rubric) # <<>>
          /\ \A i \in 1..Len(normQ[1].grading.keywords) :
                normQ[1].grading.keywords[i] # <<>>
          /\ RubricBlank(genQ[1].grading) => normQ[1].grading.rubric = GENERIC_RUBRIC

\* A short-answer question that came with an answer and a blank rubric has
\* been normalized.
C12_Witness ==
    /\ normQ # None
    /\ genQ[1].type = JStr("answer_short_question")
    /\ genQ[1].correctAnswers = JStr("A")
    /\ genQ[1].grading.rubric = JText(<<" ", "\n">>)
    /\ genQ[1].grading.keywords.t = "list"
    /\ normQ[1].grading.rubric = GENERIC_RUBRIC

\* C13: quiz generation never ends with an exception, whatever the generator
\* returned, and for a response that is no JSON it returns the empty quiz.
C13_NeverRaises ==
    /\ quizRet \notin QuizExceptions
    /\ (genQ # None /\ genQ[1].shape = "text" /\ quizRet # "")
          => quizRet = "empty" /\ normQ = None

\* The part of C13 about a response that is no JSON.
C13_UnparseableGivesEmpty ==
    (genQ # None /\ genQ[1].shape = "text" /\ quizRet # "")
       => quizRet = "empty" /\ normQ = None

QuestionTypes ==
    {JStr("true_false"), JStr("mcq_single"), JStr("mcq_multi"),
     JStr("answer_short_question")}

\* C14: every question of a returned quiz has one of the four types.
C14_TypeIsKnown ==
    normQ # None => normQ[1].type \in QuestionTypes

\* C15: the answer is mapped to the options that it names when it has one of
\* the accepted shapes, and to no recognized answer when it has another; the
\* indices [0, 2] on an mcq_multi question with 4 options give options 0 and 2
\* and 2 to 4 correct answers.
C15_AnswerShapes ==
    normQ # None
       => LET q    == genQ[1]
              opts == normQ[1].options
              r    == ToStringAnswers(q.type, opts, IncomingAnswer(q))
          IN  /\ Range(r) = Named(q.type, IncomingAnswer(q), opts)
              /\ (/\ q.type = JStr("mcq_multi") /\ Len(opts) = 4
                  /\ IncomingAnswer(q) = JList(Ints(<<0, 2>>)))
                    => /\ r = <<opts[1], opts[3]>>
                       /\ Len(normQ[1].correctAnswers) \in 2..4

\* The part of C15 that holds: for every answer that is not a list of booleans.
C15_ExceptBoolLists ==
    (/\ normQ # None
     /\ \A i \in 1..Len(IncomingAnswer(genQ[1]).l) : IncomingAnswer(genQ[1]).l[i].t # "bool")
       => LET q    == genQ[1]
              opts == normQ[1].options
              r    == ToStringAnswers(q.type, opts, IncomingAnswer(q))
          IN  /\ Range(r) = Named(q.type, IncomingAnswer(q), opts)
              /\ (/\ q.type = JStr("mcq_multi") /\ Len(opts) = 4
                  /\ IncomingAnswer(q) = JList(Ints(<<0, 2>>)))
                    => /\ r = <<opts[1], opts[3]>>
                       /\ Len(normQ[1].correctAnswers) \in 2..4

\* A citation entry {source, chunk} with a text for source and a number for chunk.
WellFormed(c) ==
    c.obj /\ c.hasSource /\ c.source.t = "str" /\ c.chunk.t = "int"

\* The well-formed entries of the citations value v, in order.
WellFormedCitations(v) ==
    LET kept == SelectSeq(CitationList(v), WellFormed)
    IN  [i \in 1..Len(kept) |-> [source |-> kept[i].source.s, chunk |-> kept[i].chunk.n]]

\* C16: for a question object that is well formed but for its citations,
\* normalization returns, and the question's citations are the well-formed
\* entries, in order.
C16_Citations ==
    (/\ genQ # None /\ quizRet # "" /\ genQ[1].shape = "object"
     /\ Raises([genQ[1] EXCEPT !.citations = JNull]) = "")
       => /\ quizRet = "quiz"
          /\ normQ[1].citations = WellFormedCitations(genQ[1].citations)

\* The part of C16 that holds: entries that are no object or have no source
\* are dropped, and the others are kept in order when every chunk converts.
C16_ObjectsWithSource ==
    normQ # None
       => LET kept == SelectSeq(CitationList(genQ[1].citations),
                                LAMBDA c : c.obj /\ c.hasSource)
          IN  /\ Len(normQ[1].citations) = Len(kept)
              /\ \A i \in 1..Len(kept) :
                    kept[i].source.t = "str"
                       => normQ[1].citations[i].source = kept[i].source.s

-----------------------------------------------------------------------------
(* Uploads of files of every kind of reader and outcome, processed without *)
(* the status and result requests.                                          *)

\* An empty text file.
FEmpty ==
    [filename |-> <<"e", ".", "t", "x", "t">>, text |-> <<>>, size |-> 0,
     decode |-> "ok"]
\* A text file that cannot be opened when the job reads it.
FUnreadable ==
    [filename |-> <<"x", ".", "t", "x", "t">>, text |-> <<"a">>, size |-> 1,
     decode |-> "error"]
\* A document, python-docx not being installed.
FDocxMissing ==
    [filename |-> <<"a", ".", "d", "o", "c", "x">>, text |-> <<"a">>, size |-> 1,
     decode |-> "missing"]
\* A document without paragraphs.
FDocx ==
    [filename |-> <<"c", ".", "d", "o", "c", "x">>, text |-> <<>>, size |-> 1,
     decode |-> "ok"]
\* An image.
FPng ==
    [filename |-> <<"i", ".", "p", "n", "g">>, text |-> <<>>, size |-> 1,
     decode |-> "ok"]
\* A PDF that neither decoder reads.
FPdfFailed ==
    [filename |-> <<"f", ".", "p", "d", "f">>, text |-> <<>>, size |-> 1,
     decode |-> "error"]
\* A large file of an unknown extension.
FBin ==
    [filename |-> <<"b", ".", "b", "i", "n">>, text |-> <<"a">>, size |-> 150 * MiB,
     decode |-> "ok"]

ExtractMenu ==
    {FParis, FEmpty, FUnreadable, FDocxMissing, FDocx, FPng, FPdfFailed, FBin}

ExtractUploads == SeqsUpTo(ExtractMenu, MaxFiles) \ {<<>>}

NextExtract ==
    \/ \E files \in ExtractUploads, dbOk \in BOOLEAN : Upload(files, dbOk)
    \/ \E j \in JobIds :
          \/ StartTask(j)
          \/ UpdateJobSetAttr(j)
          \/ UpdateJobTouch(j)
          \/ CheckDir(j)
          \/ Extract(j)
          \/ OpenIndex(j)
          \/ IndexNext(j)
          \/ MarkSucceeded(j)
          \/ RaiseInTry(j)
          \/ HandleException(j)
          \/ Finally(j)

SpecExtract == Init /\ [][NextExtract]_vars

PlaceholderTags == {"[error] ", "[missing] ", "[skip] ", "[unsupported] "}

\* The text is an explicitly tagged placeholder.
Tagged(text) == text # <<>> /\ text[1] \in PlaceholderTags

\* The file has text that a reader can extract.
Extractable(f) == f.decode = "ok" /\ Strip(f.text) # <<>>

\* C19 as stated: extraction of a file of a job returns, without raising, a
\* text that is not empty or a tagged placeholder.
C19_NonEmptyOrTagged ==
    \A j \in JobIds : \A f \in fs[j].files :
        /\ ~ExtractTextFromPath(f).raised
        /\ ExtractTextFromPath(f).text # <<>> \/ Tagged(ExtractTextFromPath(f).text)

\* C19 as amended: extraction of a file never raises; it returns a tagged
\* placeholder when the reader is absent or fails, and otherwise the text of
\* the file, which is empty only for a file without text; and a job of which
\* the input directory holds a file with extractable text is not FAILED
\* unless a step of the job (not a file) raised.
C19_ExtractNeverRaises ==
    \A j \in JobIds :
        /\ \A f \in fs[j].files :
              /\ ~ExtractTextFromPath(f).raised
              /\ f.decode # "ok" => Tagged(ExtractTextFromPath(f).text)
              /\ ExtractTextFromPath(f).text = <<>> => f.text = <<>>
        /\ task[j].exc # Some("reader failed")
        /\ (/\ j \in DOMAIN jobs /\ jobs[j].status = "FAILED" /\ task[j].exc = None
            /\ fs[j].in)
              => ~\E f \in fs[j].files : Extractable(f)

\* A job with a file that cannot be read and a file with text has ended
\* SUCCEEDED, the placeholder of the first being one of its documents.
C19_Witness ==
    \E j \in JobIds :
        /\ task[j].pc = "done"
        /\ jobs[j].status = "SUCCEEDED"
        /\ Len(task[j].extracted) = 2
        /\ \E k \in 1..2 : task[j].extracted[k].text[1] = "[error] "
        /\ \E k \in 1..2 : task[j].extracted[k].text = ParisText

-----------------------------------------------------------------------------
(* RAGIndex.add_document called on its own, with sources and texts of a    *)
(* few characters, and called again with the arguments of the last call.   *)

IndexSources == {<<"a">>, <<"b">>}

IndexTexts ==
    {<<>>, <<" ">>, <<"a">>, <<"b">>, <<"a", "b">>, <<"b", "a">>, <<"a", "b", "c">>}

\* The chunks of the text meet stored chunks of the same ids and other texts.
Overwrites(coll, docset_id, source, text) ==
    \E e \in coll : \E i \in 1..Len(ChunkText(text)) :
        e.id = StableId(docset_id, source, i - 1) /\ e.document # ChunkText(text)[i]

\* idx.add_document(docset_id, source, text)
AddDocumentCall(j, source, text) ==
    /\ LET r == AddDocument(index[j], j, source, text)
       IN  /\ index' = [index EXCEPT ![j] = r.coll]
           /\ lastAdd' = [job |-> j, source |-> source, text |-> text,
                          count |-> r.count, again |-> FALSE,
                          overwrote |-> Overwrites(index[j], j, source, text)]
    /\ UNCHANGED <<jobs, fs, task, uuids, uploadResp, poll, resultResp,
                   quizVars, evalVars, chunker, reqVars>>

\* The same call a second time.
AddAgain ==
    /\ lastAdd.job \in JobIds
    /\ LET r == AddDocument(index[lastAdd.job], lastAdd.job, lastAdd.source,
                            lastAdd.text)
       IN  /\ index' = [index EXCEPT ![lastAdd.job] = r.coll]
           /\ lastAdd' = [lastAdd EXCEPT !.count = r.count, !.again = TRUE]
    /\ UNCHANGED <<jobs, fs, task, uuids, uploadResp, poll, resultResp,
                   quizVars, evalVars, chunker, reqVars>>

NextIndex ==
    \/ \E j \in JobIds, source \in IndexSources, text \in IndexTexts :
          AddDocumentCall(j, source, text)
    \/ AddAgain

SpecIndex == Init /\ [][NextIndex]_vars

\* What add_document stores for the i-th chunk of a text.
ChunkEntry(docset_id, source, text, i) ==
    [id       |-> StableId(docset_id, source, i - 1),
     document |-> ChunkText(text)[i],
     meta     |-> [docset_id |-> docset_id, source |-> source, chunk |-> i - 1]]

\* C20: a second execution of add_document with the same arguments leaves the
\* index as the first left it and returns the same chunk count; the id of
\* every stored chunk is that of its (docset id, source, ordinal) and no two
\* stored chunks share one; and after a call, under the id of each ordinal the
\* text produces the index holds that chunk of the text and nothing else.
C20_AddDocumentIdempotent ==
    [][/\ lastAdd'.again => index' = index /\ lastAdd'.count = lastAdd.count
       /\ \A j \in JobIds :
             /\ \A e \in index'[j] :
                   e.id = StableId(e.meta.docset_id, e.meta.source, e.meta.chunk)
             /\ \A e1, e2 \in index'[j] : e1.id = e2.id => e1 = e2
       /\ lastAdd'.job \in JobIds =>
             /\ lastAdd'.count = Len(ChunkText(lastAdd'.text))
             /\ \A i \in 1..lastAdd'.count :
                   {e \in index'[lastAdd'.job] :
                       e.id = StableId(lastAdd'.job, lastAdd'.source, i - 1)}
                     = {ChunkEntry(lastAdd'.job, lastAdd'.source, lastAdd'.text, i)}
      ]_vars

\* A call that replaced stored chunks by those of a changed text has been
\* executed a second time, the index holding chunks of another source too.
C20_Witness ==
    /\ lastAdd.again
    /\ lastAdd.overwrote
    /\ lastAdd.count >= 2
    /\ \E e \in index[lastAdd.job] : e.meta.source # lastAdd.source

-----------------------------------------------------------------------------
(* _chunk_text run by itself, one pass of its while loop at a time, on     *)
(* texts shorter and longer than the window.                               *)

\* Characters by which the longest text exceeds the window.
BeyondWindow == 250

\* Lengths of the texts: none, within SnapFrom, within the window, beyond it.
ChunkLens == {0, 1, 3, SnapFrom + 10, MaxChars, MaxChars + 1, MaxChars + BeyondWindow}

\* Positions (1-based) of the spaces and of the newlines of a text.
SpacePlaces == {{}, {1, 2}, {SnapFrom + 5}, {SnapFrom + 5, MaxChars - 100, MaxChars + 5}}
NewlinePlaces == {{}, {SnapFrom + 50}, {MaxChars + 10, MaxChars + 11}}

\* The text of n characters with spaces and newlines at the places given.
MakeText(n, spaces, newlines) ==
    [x \in 1..n |-> IF x \in newlines THEN "\n" ELSE IF x \in spaces THEN " " ELSE "a"]

ChunkTexts ==
    {MakeText(n, sp, nl) : n \in ChunkLens, sp \in SpacePlaces, nl \in NewlinePlaces}

\* A window start that goes back by the overlap whatever the last start was.
NextStartUnclamped(k, i, overlap) == k - overlap

\* i = max(k - overlap, i + 1)
NextStart(k, i, overlap) == Max(k - overlap, i + 1)

\* A window that runs to the end of the text.
WindowEndWhole(i, n, max_chars) == n

\* j = min(i + max_chars, n)
WindowEnd(i, n, max_chars) == Min(i + max_chars, n)

\* k: the last newline of s[i + 200 : j], else the last space, else j
CutPosition(s, i, j) ==
    LET nl == RFind(s, "\n", i + SnapFrom, j)
        sp == RFind(s, " ", i + SnapFrom, j)
    IN  IF nl # -1 THEN nl ELSE IF sp # -1 THEN sp ELSE j

\* s = (text or "").strip(); if not s: return []; chunks, i, n = [], 0, len(s)
ChunkStart(text) ==
    /\ chunker.pc = "idle"
    /\ chunker' = IF Strip(text) = <<>>
                  THEN [NoChunker EXCEPT !.pc = "done", !.text = text]
                  ELSE [NoChunker EXCEPT !.pc = "loop", !.text = text,
                                         !.s = Strip(text)]
    /\ UNCHANGED <<pipeVars, quizVars, evalVars, lastAdd, reqVars>>

\* One pass of the while loop, i < n.
ChunkStep ==
    /\ chunker.pc = "loop"
    /\ chunker.i < Len(chunker.s)
    /\ LET j == WindowEnd(chunker.i, Len(chunker.s), MaxChars)
           k == CutPosition(chunker.s, chunker.i, j)
       IN  chunker' = [chunker EXCEPT
                          !.chunks = Append(@, Strip(Slice(chunker.s, chunker.i, k))),
                          !.i = NextStart(k, chunker.i, Overlap)]
    /\ UNCHANGED <<pipeVars, quizVars, evalVars, lastAdd, reqVars>>

\* The loop is left: return [c for c in chunks if c]
ChunkReturn ==
    /\ chunker.pc = "loop"
    /\ chunker.i >= Len(chunker.s)
    /\ chunker' = [chunker EXCEPT
                      !.pc = "done",
                      !.ret = SelectSeq(chunker.chunks, LAMBDA c : c # <<>>)]
    /\ UNCHANGED <<pipeVars, quizVars, evalVars, lastAdd, reqVars>>

AwaitedText == IF chunker.pc = "idle" THEN ChunkTexts ELSE {}

NextChunk ==
    \/ \E text \in AwaitedText : ChunkStart(text)
    \/ ChunkStep
    \/ ChunkReturn

SpecChunk == Init /\ [][NextChunk]_vars

\* The thread that runs _chunk_text is scheduled until it returns.
SpecChunkFair ==
    /\ SpecChunk
    /\ WF_vars(\E text \in AwaitedText : ChunkStart(text))
    /\ WF_vars(ChunkStep)
    /\ WF_vars(ChunkReturn)

\* C21: every segment that _chunk_text returns has at most MaxChars
\* characters and is not empty after trimming, and a second run on the same
\* text (ChunkText) returns the same sequence of segments.
C21_ChunksWithinWindow ==
    chunker.pc = "done" =>
        /\ \A x \in 1..Len(chunker.ret) :
              /\ Len(chunker.ret[x]) <= MaxChars
              /\ Strip(chunker.ret[x]) # <<>>
        /\ chunker.ret = ChunkText(chunker.text)

\* A text longer than the window has been cut into segments, one of them as
\* long as the window.
C21_Witness ==
    /\ chunker.pc = "done"
    /\ Len(chunker.s) > MaxChars
    /\ \E x \in 1..Len(chunker.ret) : Len(chunker.ret[x]) = MaxChars

\* C26: on every pass of the loop the next window start is
\* max(cut position - overlap, previous start + 1), so it grows on every
\* pass, and every run of _chunk_text returns.
C26_ChunkTerminates ==
    /\ [][chunker.pc = "loop" /\ chunker'.pc = "loop" /\ chunker' # chunker =>
             /\ chunker'.i > chunker.i
             /\ chunker'.i =
                   Max(CutPosition(chunker.s, chunker.i,
                                   Min(chunker.i + MaxChars, Len(chunker.s)))
                           - Overlap,
                       chunker.i + 1)]_vars
    /\ (chunker.pc = "loop") ~> (chunker.pc = "done")

\* A run that cut a text longer than the window, going back by the overlap
\* after the first window, has returned.
C26_Witness ==
    /\ chunker.pc = "done"
    /\ Len(chunker.chunks) > 2
    /\ Len(chunker.s) = MaxChars + BeyondWindow

-----------------------------------------------------------------------------
(* quiz.py: _pack_context                                                  *)

\* char_budget of the call in generate_quiz_from_chunks
CHAR_BUDGET == 12000
\* extra = len(t) + 100
CHARGE == 100

\* grouped: for zip(docs, metas), the stripped non-blank texts with their
\* metas, by source, the sources in the order they are first seen.
RECURSIVE GroupFrom(_, _, _, _)
GroupFrom(docs, metas, x, grouped) ==
    IF x > Min(Len(docs), Len(metas)) THEN grouped
    ELSE LET t    == Strip(docs[x])
             src  == metas[x].source
             item == [t |-> t, meta |-> metas[x]]
             at   == {g \in 1..Len(grouped) : grouped[g].source = src}
         IN  IF t = <<>> THEN GroupFrom(docs, metas, x + 1, grouped)
             ELSE IF at = {}
             THEN GroupFrom(docs, metas, x + 1,
                            Append(grouped, [source |-> src, items |-> <<item>>]))
             ELSE GroupFrom(docs, metas, x + 1,
                            [grouped EXCEPT ![CHOOSE g \in at : TRUE].items =
                                                Append(@, item)])

Grouped(docs, metas) == GroupFrom(docs, metas, 1, <<>>)

\* The permutations of 1..n.
Perms(n) == {f \in [1..n -> 1..n] : \A a, b \in 1..n : f[a] = f[b] => a = b}

\* The orders random.shuffle may leave the groups in: one permutation a group.
RECURSIVE ShufflesFrom(_, _)
ShufflesFrom(grouped, g) ==
    IF g > Len(grouped) THEN {<<>>}
    ELSE {<<perm>> \o rest : perm \in Perms(Len(grouped[g].items)),
                             rest \in ShufflesFrom(grouped, g + 1)}

Shuffles(grouped) == ShufflesFrom(grouped, 1)

\* The shuffle that leaves every group as it is.
Unshuffled(grouped) ==
    [g \in 1..Len(grouped) |-> [x \in 1..Len(grouped[g].items) |-> x]]

\* for src in grouped: random.shuffle(grouped[src])
Shuffle(grouped, perms) ==
    [g \in 1..Len(grouped) |->
        [grouped[g] EXCEPT !.items =
            [x \in 1..Len(grouped[g].items) |-> grouped[g].items[perms[g][x]]]]]

\* sources.remove(src)
Remove(sources, src) == SelectSeq(sources, LAMBDA g : g # src)

\* A candidate over the budget is passed over and the loop goes on.
OverBudgetSkips(st) == st

\* if used + extra > char_budget: return packed
OverBudget(st) == [st EXCEPT !.returned = TRUE]

\* The while loop of _pack_context and, inside it, the for loop over the
\* copy `todo` of sources made when the pass began.
RECURSIVE PackFor(_, _)
PackFor(st, todo) ==
    IF st.returned THEN st
    ELSE IF todo = <<>>
    THEN (IF st.used < st.budget /\ st.sources # <<>>
          THEN PackFor(st, st.sources)
          ELSE [st EXCEPT !.returned = TRUE])
    ELSE LET src == Head(todo)
         IN  IF st.idxs[src] >= Len(st.grouped[src].items)
             THEN PackFor([st EXCEPT !.sources = Remove(@, src)], Tail(todo))
             ELSE LET item  == st.grouped[src].items[st.idxs[src] + 1]
                      extra == Len(item.t) + CHARGE
                      next  == [st EXCEPT !.idxs[src] = @ + 1]
                  IN  IF st.used + extra > st.budget
                      THEN PackFor(OverBudget(next), Tail(todo))
                      ELSE PackFor([next EXCEPT
                                       !.packed = Append(@,
                                           [text   |-> item.t,
                                            source |-> item.meta.source,
                                            chunk  |-> item.meta.chunk]),
                                       !.used = @ + extra],
                                   Tail(todo))

\* _pack_context(docs, metas, char_budget), the groups shuffled by perms.
PackContext(docs, metas, char_budget, perms) ==
    LET grouped == Shuffle(Grouped(docs, metas), perms)
        st == [grouped |-> grouped, budget |-> char_budget,
               sources |-> [g \in 1..Len(grouped) |-> g],
               idxs |-> [g \in 1..Len(grouped) |-> 0],
               packed |-> <<>>, used |-> 0, returned |-> FALSE]
    IN  PackFor(st, <<>>).packed

-----------------------------------------------------------------------------
(* _pack_context called on its own, with chunks of one and five characters *)
(* of two sources, under budgets that some, all or none of them fit.       *)

\* Longest list of chunks handed to _pack_context.
MaxDocs == 4

PackSources == {<<"a">>, <<"b">>}
PackTexts == {<<"a", "a", "a", "a", "a">>, <<" ", "b", "\n">>, <<" ">>}

\* Budgets: below one chunk, two chunks of five exactly, two of five and one
\* of one but not three of five, and the budget of the quiz endpoint.
PackBudgets == {CHARGE, 2 * (5 + CHARGE), 2 * (5 + CHARGE) + CHARGE + 2, CHAR_BUDGET}

PackDocs == SeqsUpTo(PackSources \X PackTexts, MaxDocs)

\* docs and metas of a list of (source, text) pairs, the chunk number of each
\* being its place in the list.
DocsOf(pairs) == [x \in 1..Len(pairs) |-> pairs[x][2]]
MetasOf(pairs) ==
    [x \in 1..Len(pairs) |-> [docset_id |-> 1, source |-> pairs[x][1], chunk |-> x - 1]]

\* packed = _pack_context(docs, metas, char_budget), random.shuffle having
\* ordered the groups by perms.
Pack(pairs, char_budget, perms) ==
    /\ packer.pc = "idle"
    /\ packer' = [pc |-> "done", docs |-> DocsOf(pairs), metas |-> MetasOf(pairs),
                  budget |-> char_budget,
                  grouped |-> Shuffle(Grouped(DocsOf(pairs), MetasOf(pairs)), perms),
                  packed |-> PackContext(DocsOf(pairs), MetasOf(pairs), char_budget,
                                         perms)]
    /\ UNCHANGED <<pipeVars, quizVars, evalVars, ragVars, quizReq>>

\* The caller has the result; the next call may be made.
PackReturned ==
    /\ packer.pc = "done"
    /\ packer' = NoPacker
    /\ UNCHANGED <<pipeVars, quizVars, evalVars, ragVars, quizReq>>

AwaitedDocs == IF packer.pc = "idle" THEN PackDocs ELSE {}

NextPack ==
    \/ \E pairs \in AwaitedDocs, char_budget \in PackBudgets :
          \E perms \in Shuffles(Grouped(DocsOf(pairs), MetasOf(pairs))) :
              Pack(pairs, char_budget, perms)
    \/ PackReturned

SpecPack == Init /\ [][NextPack]_vars

\* The round-robin order of the shuffled groups: round r takes the r-th chunk
\* of every source that has one, the sources in the order first seen.
RECURSIVE RoundRobin(_, _)
RoundRobin(grouped, r) ==
    IF \A g \in 1..Len(grouped) : Len(grouped[g].items) < r THEN <<>>
    ELSE LET having == SelectSeq([g \in 1..Len(grouped) |-> g],
                                 LAMBDA g : Len(grouped[g].items) >= r)
         IN  [x \in 1..Len(having) |-> grouped[having[x]].items[r]]
                 \o RoundRobin(grouped, r + 1)

\* The characters charged for the first n chunks of an order.
RECURSIVE ChargedFor(_, _)
ChargedFor(order, n) ==
    IF n = 0 THEN 0 ELSE ChargedFor(order, n - 1) + Len(order[n].t) + CHARGE

\* The length of the longest prefix of an order that the budget pays for.
LongestWithin(order, budget) ==
    CHOOSE n \in 0..Len(order) :
        /\ ChargedFor(order, n) <= budget
        /\ n < Len(order) => ChargedFor(order, n + 1) > budget

\* C27: _pack_context returns exactly the longest prefix of the round-robin
\* order whose charge (length + 100 a chunk) is within the budget; so the
\* budget is not exceeded and nothing after the first chunk that does not fit
\* is packed.
C27_PackedIsLongestPrefix ==
    packer.pc = "done" =>
        LET order == RoundRobin(packer.grouped, 1)
            n     == LongestWithin(order, packer.budget)
        IN  /\ Len(packer.packed) = n
            /\ \A x \in 1..n :
                  packer.packed[x] = [text   |-> order[x].t,
                                      source |-> order[x].meta.source,
                                      chunk  |-> order[x].meta.chunk]
            /\ ChargedFor(order, n) <= packer.budget

\* Two chunks of two sources were packed, the third did not fit, and a
\* fourth that would still have fitted was left out.
C27_Witness ==
    /\ packer.pc = "done"
    /\ Len(packer.packed) = 2
    /\ packer.packed[1].source # packer.packed[2].source
    /\ LET order == RoundRobin(packer.grouped, 1)
       IN  /\ Len(order) = 4
           /\ ChargedFor(order, 2) + Len(order[4].t) + CHARGE <= packer.budget

-----------------------------------------------------------------------------
(* api/views.py: POST /quizzes, against an index that add_document fills.  *)

\* The job id "" (QuizIn.jobId is any string).
EmptyJobId == 0
\* The id of no job.
UnknownJobId == MaxJobs + 1

QuizJobIds == JobIds \cup {EmptyJobId, UnknownJobId}

HTTP_NOT_FOUND == 404

\* The entries of a collection in the order collection.get returns them,
\* which the code does not choose.
RECURSIVE SetToSeq(_)
SetToSeq(S) ==
    IF S = {} THEN <<>>
    ELSE LET x == CHOOSE y \in S : TRUE IN <<x>> \o SetToSeq(S \ {x})

\* RAGIndex.get_all_for_docset(docset_id) on the collection of a job id:
\* get_or_create_collection gives an empty collection for an id never indexed.
GetAllForDocset(job_id) ==
    LET coll  == IF job_id \in JobIds THEN index[job_id] ELSE {}
        found == SetToSeq({e \in coll : e.meta.docset_id = job_id})
    IN  [docs  |-> [x \in 1..Len(found) |-> found[x].document],
         metas |-> [x \in 1..Len(found) |-> found[x].meta]]

\* create_quiz: idx = RAGIndex(work_dir, collection=body.jobId), which raises
\* ValueError for an empty name; the exception leaves the handler and the
\* response is 500.
QuizStart(job_id) ==
    /\ quizReq.pc = "idle"
    /\ quizReq' = IF job_id = EmptyJobId
                  THEN [NoQuizReq EXCEPT !.pc = "done", !.job = job_id,
                                         !.code = HTTP_SERVER_ERROR,
                                         !.detail = "Internal Server Error"]
                  ELSE [NoQuizReq EXCEPT !.pc = "get_all", !.job = job_id]
    /\ UNCHANGED <<pipeVars, quizVars, evalVars, ragVars, packer>>

\* docs, metas = idx.get_all_for_docset(body.jobId); 404 when there are none;
\* else generate_quiz_from_chunks up to the generator call, which is made
\* unless nothing was packed.
QuizGetAll ==
    /\ quizReq.pc = "get_all"
    /\ LET got    == GetAllForDocset(quizReq.job)
           packed == PackContext(got.docs, got.metas, CHAR_BUDGET,
                                 Unshuffled(Grouped(got.docs, got.metas)))
       IN  quizReq' =
               IF got.docs = <<>>
               THEN [quizReq EXCEPT !.pc = "done", !.code = HTTP_NOT_FOUND,
                                    !.detail = "No indexed documents for this jobId"]
               ELSE IF packed = <<>>
               THEN [quizReq EXCEPT !.pc = "done", !.code = HTTP_OK]
               ELSE [quizReq EXCEPT !.pc = "generator", !.called = TRUE]
    /\ UNCHANGED <<pipeVars, quizVars, evalVars, ragVars, packer>>

\* The generator answers and _normalize_quiz returns the quiz or raises.
QuizGenerated(raised) ==
    /\ quizReq.pc = "generator"
    /\ quizReq' = [quizReq EXCEPT
                      !.pc = "done",
                      !.code = IF raised THEN HTTP_SERVER_ERROR ELSE HTTP_OK,
                      !.detail = IF raised THEN "Internal Server Error" ELSE ""]
    /\ UNCHANGED <<pipeVars, quizVars, evalVars, ragVars, packer>>

\* The client reads the response; another request may follow.
QuizAnswered ==
    /\ quizReq.pc = "done"
    /\ quizReq' = NoQuizReq
    /\ UNCHANGED <<pipeVars, quizVars, evalVars, ragVars, packer>>

NextQuizReq ==
    \/ \E j \in JobIds, source \in IndexSources, text \in IndexTexts :
          AddDocumentCall(j, source, text)
    \/ \E job_id \in QuizJobIds : QuizStart(job_id)
    \/ QuizGetAll
    \/ \E raised \in BOOLEAN : QuizGenerated(raised)
    \/ QuizAnswered

SpecQuizReq == Init /\ [][NextQuizReq]_vars

\* The index holds no chunk under the job id.
NoChunksOf(job_id) == job_id \notin JobIds \/ index[job_id] = {}

\* C24: a quiz request for a job id under which no chunk is indexed is
\* answered 404, and the generator is not called during that request.
C24_NoChunksNotFound ==
    [][(quizReq'.pc = "done" /\ quizReq.pc # "done" /\ NoChunksOf(quizReq'.job)) =>
          /\ quizReq'.code = HTTP_NOT_FOUND
          /\ ~quizReq'.called]_vars

\* The part of C24 that holds: the generator is never called for a job id
\* without chunks, and the response is 404 unless the job id is "".
C24_NoGeneratorCall ==
    [][(quizReq'.pc = "done" /\ quizReq.pc # "done" /\ NoChunksOf(quizReq'.job)) =>
          /\ ~quizReq'.called
          /\ quizReq'.job # EmptyJobId => quizReq'.code = HTTP_NOT_FOUND]_vars

-----------------------------------------------------------------------------
(* Two uploads and their two process_job tasks, interleaved step by step.  *)

\* Number of jobs that run side by side.
Concurrent == 2

ConcurrentIds == 1..Concurrent

ConcurrentUploads == {<<FParis>>, <<FBlank>>, <<FBig>>}

InitConcurrent ==
    /\ jobs = << >>
    /\ fs = [j \in ConcurrentIds |-> NoDir]
    /\ index = [j \in ConcurrentIds |-> {}]
    /\ task = [j \in ConcurrentIds |-> NoTask]
    /\ uuids = 0
    /\ uploadResp = [job |-> 0, code |-> 0, detail |-> ""]
    /\ poll = IdlePoll
    /\ resultResp = NoResultResp
    /\ genQ = None
    /\ normQ = None
    /\ quizRet = ""
    /\ evalReq = None
    /\ evalResp = NoEvalResp
    /\ lastAdd = NoAdd
    /\ chunker = NoChunker
    /\ packer = NoPacker
    /\ quizReq = NoQuizReq

NextConcurrent ==
    \/ \E files \in ConcurrentUploads, dbOk \in BOOLEAN :
          UploadWithin(Concurrent, files, dbOk)
    \/ \E j \in ConcurrentIds :
          \/ StartTask(j)
          \/ UpdateJobSetAttr(j)
          \/ UpdateJobTouch(j)
          \/ CheckDir(j)
          \/ Extract(j)
          \/ OpenIndex(j)
          \/ IndexNext(j)
          \/ MarkSucceeded(j)
          \/ RaiseInTry(j)
          \/ HandleException(j)
          \/ Finally(j)

SpecConcurrent == InitConcurrent /\ [][NextConcurrent]_vars

\* What a job that runs alone has in its index after the first n of its
\* extracted documents.
RECURSIVE IndexedAlone(_, _, _)
IndexedAlone(j, extracted, n) ==
    IF n = 0 THEN {}
    ELSE AddDocument(IndexedAlone(j, extracted, n - 1), j,
                     <<j, extracted[n].path>>, extracted[n].text).coll

\* The chunk count of a job that runs alone.
RECURSIVE ChunksAlone(_, _)
ChunksAlone(extracted, n) ==
    IF n = 0 THEN 0
    ELSE ChunksAlone(extracted, n - 1) + Len(ChunkText(extracted[n].text))

\* The record of job j at its end is the one it has when it runs alone.
EndsAsAlone(j) ==
    LET t == task[j]
    IN  IF t.exc # None
        THEN jobs[j].status = "FAILED" /\ jobs[j].error = t.exc
                  /\ jobs[j].chunks_indexed = None
        ELSE IF t.extracted = <<>>
        THEN jobs[j].status = "FAILED" /\ jobs[j].progress = 10
                  /\ jobs[j].chunks_indexed = None
        ELSE /\ jobs[j].status = "SUCCEEDED"
             /\ jobs[j].progress = 100
             /\ jobs[j].chunks_indexed = Some(ChunksAlone(t.extracted, Len(t.extracted)))

\* C25: a step of one job's process_job changes nothing of another job (its
\* record, its input area, its index partition, its task), and whatever the
\* interleaving each job's index and, at its end, its status, progress and
\* chunk count are those of the job running alone.
C25_JobsIndependent ==
    /\ [](\A j \in ConcurrentIds : task[j].pc = "done" => EndsAsAlone(j))
    /\ [][\A j \in ConcurrentIds :
          /\ task'[j] # task[j] =>
                \A k \in ConcurrentIds \ {j} :
                    /\ fs'[k] = fs[k]
                    /\ index'[k] = index[k]
                    /\ task'[k] = task[k]
                    /\ k \in DOMAIN jobs => jobs'[k] = jobs[k]
          /\ (index'[j] # index[j] \/ task'[j].i # task[j].i
                  \/ task'[j].extracted # task[j].extracted) =>
                index'[j] = IndexedAlone(j, task'[j].extracted, task'[j].i)
          /\ (task[j].pc = "done" /\ j \in DOMAIN jobs) => jobs'[j] = jobs[j]]_vars

\* Two jobs are in progress at once, one indexing its documents, the other
\* inside update_job.
C25_Witness ==
    /\ DOMAIN jobs = ConcurrentIds
    /\ \E j, k \in ConcurrentIds :
          /\ j # k
          /\ task[j].pc = "add_document" /\ task[j].i > 0
          /\ task[k].pc = "update_job" /\ jobs[k].status = "PROCESSING"

-----------------------------------------------------------------------------
(* Properties of the job lifecycle.                                        *)

Terminal == {"SUCCEEDED", "FAILED"}

\* The edges of the job state machine.
StatusEdges ==
    {<<"PENDING", "PROCESSING">>, <<"PROCESSING", "SUCCEEDED">>,
     <<"PROCESSING", "FAILED">>}

\* C1: a job's status only changes PENDING -> PROCESSING, PROCESSING ->
\* SUCCEEDED or PROCESSING -> FAILED, and once it is SUCCEEDED or FAILED neither
\* the status nor any other field of the record changes again.
C1_Lifecycle ==
    [][\A j \in DOMAIN jobs :
          /\ jobs'[j].status # jobs[j].status
                => <<jobs[j].status, jobs'[j].status>> \in StatusEdges
          /\ jobs[j].status \in Terminal => jobs'[j] = jobs[j]]_vars

\* The part of C1 that is about the status alone: it moves along the edges
\* only, and never leaves SUCCEEDED or FAILED.
C1_StatusAlone ==
    [][\A j \in DOMAIN jobs :
          jobs'[j].status # jobs[j].status
             => <<jobs[j].status, jobs'[j].status>> \in StatusEdges]_vars

\* C2: a complete status response never mixes two updates: it never shows
\* SUCCEEDED with progress below 100, nor FAILED without an error.
C2_NoTornRead ==
    (poll.pc = "done" /\ poll.code = 200)
        => /\ poll.status = "SUCCEEDED" => poll.progress = 100
           /\ poll.status = "FAILED" => poll.error # None

\* C3: when a step of the try block has raised, process_job does not let the
\* exception out, and it returns with the job FAILED and the exception's
\* message as its error.
C3_ExceptionsCaptured ==
    \A j \in JobIds :
        /\ task[j].pc # "raised"
        /\ (task[j].exc # None /\ task[j].pc = "done")
              => /\ jobs[j].status = "FAILED"
                 /\ jobs[j].error = task[j].exc

\* A job has finished after its indexing raised.
C3_Witness ==
    \E j \in JobIds :
        /\ task[j].pc = "done"
        /\ task[j].exc = Some("embedding request failed")
        /\ jobs[j].error = Some("embedding request failed")

\* C4: when process_job has ended, on whatever path, the job's in/ directory
\* does not exist and cleanup did not raise.
C4_CleanupOnEveryExit ==
    \A j \in JobIds :
        task[j].pc \in {"done", "raised"} => ~fs[j].in /\ ~task[j].cleanupErr

\* A job has ended at the first gate: its in/ directory was already absent
\* when cleanup ran.
C4_Witness ==
    \E j \in JobIds :
        /\ task[j].pc = "done"
        /\ jobs[j].error = Some("Input directory missing")

\* C5: the job of an upload of the one file p.txt with the text "Paris is the
\* capital of France.", once processed without a raised exception, is
\* SUCCEEDED with chunks_indexed = 1.
C5_ParisOneChunk ==
    \A j \in JobIds :
        (/\ task[j].pc = "done"
         /\ task[j].exc = None
         /\ task[j].extracted = <<[path |-> <<"p", ".", "t", "x", "t">>, text |-> ParisText]>>)
            => /\ jobs[j].status = "SUCCEEDED"
               /\ jobs[j].chunks_indexed = Some(1)

\* C6: in every state, the status response of a registered job (and every
\* response the status endpoint has returned) carries an error exactly when the
\* status is FAILED, and a resultUrl exactly when the job has a result.
C6_ErrorIffFailed ==
    /\ \A j \in DOMAIN jobs :
          /\ jobs[j].error # None <=> jobs[j].status = "FAILED"
    /\ (poll.pc = "done" /\ poll.code = 200)
          => /\ poll.error # None <=> poll.status = "FAILED"
             /\ poll.resultUrl # None <=> jobs[poll.job].result_path # None

\* The classes of result requests that C7 tells apart.
ResultCase(r) ==
    CASE r.seen \in {"PENDING", "PROCESSING"} -> "not ready"
      [] r.seen = "FAILED"                     -> "failed"
      [] r.seen = "absent"                     -> "never existed"
      [] r.seen = "SUCCEEDED"                  -> "succeeded"
      [] OTHER                                 -> "none"

C8_NoTextNoSuccess ==
    \A j \in JobIds :
        /\ \A k \in 1..Len(task[j].extracted) : Strip(task[j].extracted[k].text) # <<>>
        /\ index[j] # {} => task[j].extracted # <<>>
        /\ (task[j].pc = "done" /\ task[j].extracted = <<>>)
              => jobs[j].status = "FAILED"
        /\ (j \in DOMAIN jobs /\ jobs[j].status = "SUCCEEDED")
              => /\ task[j].extracted # <<>>
                 /\ task[j].i = Len(task[j].extracted)

\* A job whose only file is blank has ended at the second gate, with nothing
\* indexed.
C8_Witness ==
    \E j \in JobIds :
        /\ task[j].pc = "done"
        /\ jobs[j].error = Some("No text extracted from files")
        /\ index[j] = {}

-----------------------------------------------------------------------------
(* Properties of a job's progress.                                         *)

Checkpoints == {0, 10, 40, 100}

\* process_job has found the input directory of the job.
DirFound(t) ==
    /\ t.pc \notin {"none", "queued", "check_dir"}
    /\ ~(t.pc = "update_job" /\ t.ret = "check_dir")

\* The progress of no job decreases.
ProgressGrows ==
    [][\A j \in DOMAIN jobs : jobs'[j].progress >= jobs[j].progress]_vars

\* C28: the progress of a job never decreases and is 0, 10, 40 or 100; it is
\* 100 exactly when the status is SUCCEEDED; it is 10 or more only after the
\* input directory was found and 40 or more only after extraction returned a
\* document.
C28_ProgressCheckpoints ==
    /\ ProgressGrows
    /\ [](\A j \in DOMAIN jobs :
            /\ jobs[j].progress \in Checkpoints
            /\ jobs[j].progress = 100 <=> jobs[j].status = "SUCCEEDED"
            /\ jobs[j].progress >= 10 => DirFound(task[j])
            /\ jobs[j].progress >= 40 => task[j].extracted # <<>>)

\* What holds of C28: all of it but "SUCCEEDED implies 100", which holds
\* once the update_job call that sets SUCCEEDED has returned.
C28_ExceptInsideUpdate ==
    /\ ProgressGrows
    /\ [](\A j \in DOMAIN jobs :
            /\ jobs[j].progress \in Checkpoints
            /\ jobs[j].progress = 100 => jobs[j].status = "SUCCEEDED"
            /\ (jobs[j].status = "SUCCEEDED" /\ task[j].pc # "update_job")
                  => jobs[j].progress = 100
            /\ jobs[j].progress >= 10 => DirFound(task[j])
            /\ jobs[j].progress >= 40 => task[j].extracted # <<>>)

-----------------------------------------------------------------------------
(* Termination of jobs.                                                    *)

\* A step of process_job for job j other than a failure of a call.
TaskStep(j) ==
    \/ StartTask(j)
    \/ UpdateJobSetAttr(j)
    \/ UpdateJobTouch(j)
    \/ CheckDir(j)
    \/ Extract(j)
    \/ OpenIndex(j)
    \/ IndexNext(j)
    \/ MarkSucceeded(j)
    \/ HandleException(j)
    \/ Finally(j)

\* The background task of every job that was handed off keeps running: its
\* calls return or raise.
SpecFair == SpecExtract /\ \A j \in JobIds : WF_vars(TaskStep(j))

\* The job has a record and its status is SUCCEEDED or FAILED.
Ended(j) == j \in DOMAIN jobs /\ jobs[j].status \in Terminal

\* C29: every job record that intake created reaches SUCCEEDED or FAILED.
C29_EveryJobEnds ==
    \A j \in JobIds :
        [](j \in DOMAIN jobs => <>Ended(j))

\* C30: the index holds no chunk under the id of a job that is FAILED.
C30_FailedJobHasNoIndex ==
    \A j \in DOMAIN jobs : jobs[j].status = "FAILED" => index[j] = {}

\* What holds of C30: a job that failed before its first add_document
\* returned has no chunk in the index.
C30_FailedBeforeIndexing ==
    \A j \in DOMAIN jobs :
        (jobs[j].status = "FAILED" /\ task[j].i = 0) => index[j] = {}

-----------------------------------------------------------------------------
(* Properties of intake.                                                   *)

\* The bytes an upload request writes when nothing stops it: those of its
\* parts that have a filename.
RECURSIVE BytesWritten(_)
BytesWritten(files) ==
    IF files = <<>> THEN 0
    ELSE (IF Head(files).filename = <<>> THEN 0 ELSE Head(files).size)
             + BytesWritten(Tail(files))

\* The bytes an upload request carries in all its parts.
RECURSIVE BytesCarried(_)
BytesCarried(files) ==
    IF files = <<>> THEN 0 ELSE Head(files).size + BytesCarried(Tail(files))

\* The request was refused and left nothing: no file in the job's input area,
\* no job record, no process_job scheduled.
RefusedClean(job_id) ==
    /\ fs'[job_id].files = {}
    /\ jobs' = jobs
    /\ job_id \notin DOMAIN jobs'
    /\ task'[job_id].pc = "none"

\* C22: an upload that writes more than 200 MiB in all is answered 413
\* "Total upload too large"; afterwards the job's input area holds no file,
\* there is no job record and no process_job is scheduled for its id.
C22_TooLargeAborts ==
    [][\A files \in Uploads, dbOk \in BOOLEAN :
          Upload(files, dbOk) /\ BytesWritten(files) > 200 * MiB =>
              /\ uploadResp'.code = 413
              /\ uploadResp'.detail = "Total upload too large"
              /\ RefusedClean(uploadResp'.job)]_vars

\* An upload was answered 413.
C22_Witness ==
    /\ uploadResp.code = 413
    /\ fs[uploadResp.job].in
    /\ fs[uploadResp.job].files = {}

\* C23: an upload whose parts carry no byte at all is answered 400 "No valid
\* files uploaded", and there is no job record and no process_job scheduled.
C23_ZeroBytesRejected ==
    [][\A files \in ExtractUploads, dbOk \in BOOLEAN :
          Upload(files, dbOk) /\ BytesCarried(files) = 0 =>
              /\ uploadResp'.code = 400
              /\ uploadResp'.detail = "No valid files uploaded"
              /\ RefusedClean(uploadResp'.job)]_vars

====
